---- MODULE Spec2Model ----
(***************************************************************************)
(* Model of the dish manager: its validation and consolidation functions,  *)
(* and the application built on them (App, CreateDishForm, useFirestore).  *)
(*                                                                         *)
(* A JavaScript string is a finite sequence of one-character strings, so   *)
(* that String.prototype.trim and toLowerCase are computed on characters   *)
(* and not assumed.  The functions of utils/validation.ts and              *)
(* utils/consolidation.ts are operators; a call is one action that reads   *)
(* its arguments from the state and stores what the function returns in    *)
(* ret.                                                                    *)
(***************************************************************************)
EXTENDS Integers, Sequences, FiniteSets, TLC

VARIABLES
    name,            \* validateDishName / validateDish: the candidate name
    existingDishes,  \* validateDishName / validateDish: the dish collection
    editingId,       \* validateDishName / validateDish: optional third argument
    ingredients,     \* validateIngredients / validateDish: category -> strings
    dishes,          \* consolidateIngredients: the selected dishes
    consolidatedList, \* formatConsolidatedListForClipboard: its argument
    store,           \* the Firestore collection 'dishes'
    app,             \* per client: the state of App and of CreateDishForm
    clock,           \* the time new Date() reads
    args,            \* the arguments of the call of a function of the hook
    suggestions,     \* the state of useIngredientSuggestions
    ingredientDocs,  \* the Firestore collection 'ingredients'
    pc,              \* "start", or the name of the function that has returned
    ret              \* what that function returned

vars == <<name, existingDishes, editingId, ingredients, dishes,
          consolidatedList, store, app, clock, args, suggestions,
          ingredientDocs, pc, ret>>

\* the variables of useIngredientSuggestions
hookVars == <<args, suggestions, ingredientDocs>>

\* the variables of the running application
appVars == <<store, app, clock, hookVars>>

\* useIngredientSuggestions is not mounted
NoHook ==
    /\ args = <<>>
    /\ suggestions = <<>>
    /\ ingredientDocs = <<>>

\* no application is running: the functions are called on their own
NoApp ==
    /\ store = {}
    /\ app = <<>>
    /\ clock = 0
    /\ NoHook

----------------------------------------------------------------------------
(* Bounds of the model *)

\* longest dish name, typed or stored
MaxLen == 2
\* most ingredient strings in one argument (over all dishes and categories)
MaxEntries == 3
\* most dishes handed to consolidateIngredients
MaxDishes == 2

----------------------------------------------------------------------------
(* Strings *)

\* the characters String.prototype.trim strips that the model uses
Whitespace == {" ", "\t"}

\* the characters typed dish names are made of
NameChar == {" ", "\t", "a", "A"}

\* the characters stored dish names are made of
StoredChar == {" ", "a", "A"}

\* A-Z -> a-z, for the letters of the model; every other character is kept
lowerChar(c) ==
    CASE c = "A" -> "a"
      [] c = "B" -> "b"
      [] OTHER -> c

\* String.prototype.toLowerCase
toLowerCase(s) == [i \in 1..Len(s) |-> lowerChar(s[i])]

RECURSIVE trimStart(_)
trimStart(s) ==
    IF s # <<>> /\ Head(s) \in Whitespace THEN trimStart(Tail(s)) ELSE s

RECURSIVE trimEnd(_)
trimEnd(s) ==
    IF s # <<>> /\ s[Len(s)] \in Whitespace
    THEN trimEnd(SubSeq(s, 1, Len(s) - 1))
    ELSE s

\* String.prototype.trim
trim(s) == trimEnd(trimStart(s))

\* all sequences over S of length exactly n / at most n
RECURSIVE SeqsOfLen(_, _)
SeqsOfLen(S, n) ==
    IF n = 0 THEN {<<>>}
    ELSE {Append(q, x) : q \in SeqsOfLen(S, n - 1), x \in S}

SeqsUpTo(S, n) == UNION {SeqsOfLen(S, k) : k \in 0..n}

----------------------------------------------------------------------------
(* constants.ts, types.ts *)

CATEGORIES == <<"Fruit shop", "Butchery", "Supermarket">>

CategoryName == {CATEGORIES[i] : i \in DOMAIN CATEGORIES}

\* the ingredients of a dish with no ingredient
EmptyIngredients == [c \in CategoryName |-> <<>>]

\* a Dish; createdAt plays no part in validation or consolidation
Dish(id, n, ing) == [id |-> id, name |-> n, ingredients |-> ing]

----------------------------------------------------------------------------
(* utils/validation.ts *)

\* the value of an omitted editingId; no dish id equals it
undefined == "undefined"

\* the null a validator returns for a valid field
null == [field |-> "null", message |-> "null"]

ValidationError(f, m) == [field |-> f, message |-> m]

RequiredName == ValidationError("name", "Dish name is required")
DuplicateName == ValidationError("name", "A dish with this name already exists")
RequiredIngredients ==
    ValidationError("ingredients", "At least one ingredient is required")

\* a slip in the predicate: || where the code has &&
isDuplicateOr(dish, trimmedName, eid) ==
    toLowerCase(dish.name) = toLowerCase(trimmedName) \/ dish.id # eid

\* the predicate handed to existingDishes.find
isDuplicate(dish, trimmedName, eid) ==
    toLowerCase(dish.name) = toLowerCase(trimmedName) /\ dish.id # eid

\* a slip in the order of the checks: the duplicate search before the
\* emptiness check
validateDishNameDuplicateFirst(n, existing, eid) ==
    LET trimmedName == trim(n)
    IN IF \E i \in DOMAIN existing : isDuplicate(existing[i], trimmedName, eid)
       THEN DuplicateName
       ELSE IF trimmedName = <<>> THEN RequiredName ELSE null

\* find returns the first dish the predicate holds of, or undefined: the
\* result is truthy exactly when the predicate holds of some dish
validateDishName(n, existing, eid) ==
    LET trimmedName == trim(n)
    IN IF trimmedName = <<>> THEN RequiredName
       ELSE IF \E i \in DOMAIN existing : isDuplicate(existing[i], trimmedName, eid)
            THEN DuplicateName
            ELSE null

\* ingredients[category].some(ing => ing.trim() !== '')
someNonBlank(list) == \E i \in DOMAIN list : trim(list[i]) # <<>>

\* a per-category minimum: every category must hold a non-blank entry
validateIngredientsEvery(ing) ==
    LET hasAnyIngredient ==
            \A i \in DOMAIN CATEGORIES : someNonBlank(ing[CATEGORIES[i]])
    IN IF ~hasAnyIngredient THEN RequiredIngredients ELSE null

validateIngredients(ing) ==
    LET hasAnyIngredient ==
            \E i \in DOMAIN CATEGORIES : someNonBlank(ing[CATEGORIES[i]])
    IN IF ~hasAnyIngredient THEN RequiredIngredients ELSE null

\* errors.push(e) when e is an error, errors when it is null
pushError(errors, e) == IF e # null THEN Append(errors, e) ELSE errors

\* the two validators run in the other order
validateDishIngredientsFirst(n, ing, existing, eid) ==
    LET ingredientsError == validateIngredients(ing)
        errors1 == pushError(<<>>, ingredientsError)
        nameError == validateDishName(n, existing, eid)
    IN pushError(errors1, nameError)

validateDish(n, ing, existing, eid) ==
    LET nameError == validateDishName(n, existing, eid)
        errors1 == pushError(<<>>, nameError)
        ingredientsError == validateIngredients(ing)
    IN pushError(errors1, ingredientsError)

----------------------------------------------------------------------------
(* Arguments of the validators *)

\* every typed name of at most MaxLen characters, blank and untrimmed included
NameStr == SeqsUpTo(NameChar, MaxLen)

\* every stored name of at most MaxLen characters: a snapshot of the store may
\* hold any string, an untrimmed or an empty one too
StoredNameStr == SeqsUpTo(StoredChar, MaxLen)

\* the ids of the stored dishes, and an id no stored dish has
DishIds == {"1", "2"}
EditingIds == {undefined, "1", "3"}

\* dish collections: at most one dish per id, in either order
DishCollections ==
    {<<>>}
    \cup {<<Dish(i, n, EmptyIngredients)>> : i \in DishIds, n \in StoredNameStr}
    \cup {<<Dish(i, n, EmptyIngredients), Dish(j, m, EmptyIngredients)>> :
            <<i, j>> \in {p \in DishIds \X DishIds : p[1] # p[2]},
            <<n, m>> \in StoredNameStr \X StoredNameStr}

NoRet == null

InitName ==
    /\ name \in NameStr
    /\ existingDishes \in DishCollections
    /\ editingId \in EditingIds
    /\ ingredients = EmptyIngredients
    /\ dishes = <<>>
    /\ consolidatedList = [c \in {"Fruit shop", "Butchery", "Supermarket"} |-> <<>>]
    /\ NoApp
    /\ pc = "start"
    /\ ret = NoRet

\* a call of validateDishName(name, existingDishes, editingId)
ValidateDishNameCall ==
    /\ pc = "start"
    /\ pc' = "validateDishName"
    /\ ret' = validateDishName(name, existingDishes, editingId)
    /\ UNCHANGED <<name, existingDishes, editingId, ingredients, dishes,
                   consolidatedList, appVars>>

NextName == ValidateDishNameCall

SpecName == InitName /\ [][NextName]_vars

----------------------------------------------------------------------------
(* Properties of validateDishName *)

\* s is empty or made of whitespace only
Blank(s) == \A i \in DOMAIN s : s[i] \in Whitespace

\* the two names are equal once both are trimmed and lowercased
SameName(a, b) == toLowerCase(trim(a)) = toLowerCase(trim(b))

Returned(f) == pc = f

\* C1: for a non-blank name, validateDishName returns the duplicate error
\* whenever a dish whose id differs from editingId has a name equal to the
\* input once both are trimmed and lowercased.
C1_DuplicateIgnoresCaseAndWhitespace ==
    ( /\ Returned("validateDishName")
      /\ ~Blank(name)
      /\ \E i \in DOMAIN existingDishes :
            /\ existingDishes[i].id # editingId
            /\ SameName(existingDishes[i].name, name) )
    => ret = DuplicateName

\* C2: a name that is empty or whitespace only gets the "required" error,
\* whatever the dish collection and editingId are.
C2_BlankNameIsRequired ==
    (Returned("validateDishName") /\ Blank(name)) => ret = RequiredName

\* a blank name of spaces and tabs checked against a collection that holds a
\* dish with a blank name, which the duplicate check would match
C2_Witness ==
    /\ Returned("validateDishName")
    /\ Len(name) = MaxLen
    /\ \A i \in DOMAIN name : name[i] \in Whitespace
    /\ \E i \in DOMAIN name : name[i] = "\t"
    /\ \E i \in DOMAIN existingDishes :
          existingDishes[i].name = <<>> /\ existingDishes[i].id # editingId
    /\ ret = RequiredName

\* C3: a non-blank name that equals no stored name, once both are trimmed and
\* lowercased, is valid, with or without an editingId.
C3_UniqueNameIsValid ==
    ( /\ Returned("validateDishName")
      /\ ~Blank(name)
      /\ \A i \in DOMAIN existingDishes :
            ~SameName(existingDishes[i].name, name) )
    => ret = null

\* an untrimmed upper-case name accepted against two stored dishes
C3_Witness ==
    /\ Returned("validateDishName")
    /\ ~Blank(name)
    /\ name # toLowerCase(trim(name))
    /\ Len(existingDishes) = 2
    /\ \A i \in DOMAIN existingDishes : ~Blank(existingDishes[i].name)
    /\ editingId # undefined
    /\ ret = null

\* C4: the exemption covers exactly the dish whose id is editingId: a name
\* matching only that dish is valid, a name matching another dish is a
\* duplicate, and an editingId no dish has changes nothing.
C4_ExemptionOnlyForEditedDish ==
    Returned("validateDishName") /\ ~Blank(name) =>
        LET matching == {i \in DOMAIN existingDishes :
                            SameName(existingDishes[i].name, name)}
            edited == {i \in DOMAIN existingDishes :
                            existingDishes[i].id = editingId}
        IN /\ (matching # {} /\ matching \subseteq edited) => ret = null
           /\ (matching \ edited # {}) => ret = DuplicateName
           /\ edited = {} =>
                ret = validateDishName(name, existingDishes, undefined)

----------------------------------------------------------------------------
(* Arguments made of ingredient strings *)

\* the ingredient strings of the model: empty, whitespace only, one
\* ingredient in two spellings, a second one in upper case and one with a
\* space inside
IngredientStr ==
    { <<>>, <<" ", "\t">>, <<"a">>, <<" ", "A", " ">>, <<"B">>,
      <<"a", " ", "b">> }

\* every ingredients record (category -> strings) holding exactly n strings
IngredientsOfSize(n) ==
    UNION { { [c \in CategoryName |->
                 CASE c = CATEGORIES[1] -> f
                   [] c = CATEGORIES[2] -> b
                   [] OTHER -> s] :
              f \in SeqsOfLen(IngredientStr, i),
              b \in SeqsOfLen(IngredientStr, j),
              s \in SeqsOfLen(IngredientStr, n - i - j) } :
            <<i, j>> \in {p \in (0..n) \X (0..n) : p[1] + p[2] <= n} }

IngredientsUpTo(n) == UNION {IngredientsOfSize(k) : k \in 0..n}

InitIngredients ==
    /\ ingredients \in IngredientsUpTo(MaxEntries)
    /\ name = <<>>
    /\ existingDishes = <<>>
    /\ editingId = undefined
    /\ dishes = <<>>
    /\ consolidatedList = [c \in {"Fruit shop", "Butchery", "Supermarket"} |-> <<>>]
    /\ NoApp
    /\ pc = "start"
    /\ ret = NoRet

\* a call of validateIngredients(ingredients)
ValidateIngredientsCall ==
    /\ pc = "start"
    /\ pc' = "validateIngredients"
    /\ ret' = validateIngredients(ingredients)
    /\ UNCHANGED <<name, existingDishes, editingId, ingredients, dishes,
                   consolidatedList, appVars>>

NextIngredients == ValidateIngredientsCall

SpecIngredients == InitIngredients /\ [][NextIngredients]_vars

----------------------------------------------------------------------------
(* Properties of validateIngredients *)

\* every entry of every category of ing is blank
AllBlank(ing) ==
    \A c \in CategoryName : \A i \in DOMAIN ing[c] : Blank(ing[c][i])

\* C5: validateIngredients returns the "required" error if and only if every
\* entry of every category is blank after trimming (no entry at all
\* included), and null as soon as one entry of one category is not.
C5_RequiredIffAllBlank ==
    Returned("validateIngredients") =>
        /\ ret \in {RequiredIngredients, null}
        /\ ret = RequiredIngredients <=> AllBlank(ingredients)

\* one non-blank entry in the last category only, the others blank: valid
C5_Witness ==
    /\ Returned("validateIngredients")
    /\ ingredients[CATEGORIES[1]] = <<>>
    /\ Len(ingredients[CATEGORIES[2]]) = 2
    /\ \A i \in DOMAIN ingredients[CATEGORIES[2]] :
          Blank(ingredients[CATEGORIES[2]][i])
    /\ Len(ingredients[CATEGORIES[3]]) = 1
    /\ ~Blank(ingredients[CATEGORIES[3]][1])
    /\ ret = null

----------------------------------------------------------------------------
(* validateDish *)

InitDish ==
    /\ name \in NameStr
    /\ existingDishes \in {c \in DishCollections : Len(c) <= 1}
    /\ editingId \in EditingIds
    /\ ingredients \in IngredientsUpTo(1)
    /\ dishes = <<>>
    /\ consolidatedList = [c \in {"Fruit shop", "Butchery", "Supermarket"} |-> <<>>]
    /\ NoApp
    /\ pc = "start"
    /\ ret = NoRet

\* a call of validateDish(name, ingredients, existingDishes, editingId)
ValidateDishCall ==
    /\ pc = "start"
    /\ pc' = "validateDish"
    /\ ret' = validateDish(name, ingredients, existingDishes, editingId)
    /\ UNCHANGED <<name, existingDishes, editingId, ingredients, dishes,
                   consolidatedList, appVars>>

NextDish == ValidateDishCall

SpecDish == InitDish /\ [][NextDish]_vars

\* C6: validateDish returns exactly the non-null results of validateDishName
\* and validateIngredients, the name error first: at most two errors, at most
\* one per field, and none if and only if both validators return null.
C6_ErrorsOfBothValidatorsInOrder ==
    Returned("validateDish") =>
        LET ne == validateDishName(name, existingDishes, editingId)
            ie == validateIngredients(ingredients)
        IN /\ ret = CASE ne # null /\ ie # null -> <<ne, ie>>
                      [] ne # null /\ ie = null -> <<ne>>
                      [] ne = null /\ ie # null -> <<ie>>
                      [] OTHER -> <<>>
           /\ Len(ret) <= 2
           /\ \A i, j \in DOMAIN ret : ret[i].field = ret[j].field => i = j
           /\ \A i \in DOMAIN ret : ret[i].field \in {"name", "ingredients"}
           /\ ret = <<>> <=> (ne = null /\ ie = null)

\* a duplicate name together with blank ingredients: both errors, name first
C6_Witness ==
    /\ Returned("validateDish")
    /\ ~Blank(name)
    /\ \E c \in CategoryName : ingredients[c] # <<>>
    /\ ret = <<DuplicateName, RequiredIngredients>>

----------------------------------------------------------------------------
(* utils/consolidation.ts *)

\* the key trimmed but left in the case it was typed in
normalizeTrimOnly(ingredient) == trim(ingredient)

\* ingredient.trim().toLowerCase()
normalize(ingredient) == toLowerCase(trim(ingredient))

\* A Map<string, number> is the sequence of its <<key, value>> entries in
\* insertion order, which is the order Map.prototype.entries yields.
mapHas(m, k) == \E i \in DOMAIN m : m[i][1] = k

\* countMap.get(k) || 0
mapGetOr0(m, k) ==
    IF mapHas(m, k) THEN m[CHOOSE i \in DOMAIN m : m[i][1] = k][2] ELSE 0

\* countMap.set(k, v): a present key keeps its place, a new one goes last
mapSet(m, k, v) ==
    IF mapHas(m, k)
    THEN [i \in DOMAIN m |-> IF m[i][1] = k THEN <<k, v>> ELSE m[i]]
    ELSE Append(m, <<k, v>>)

\* the ingredient strings the two nested loops visit for one category:
\* dish by dish, each dish's strings in their order
RECURSIVE visited(_, _)
visited(ds, category) ==
    IF ds = <<>> THEN <<>>
    ELSE Head(ds).ingredients[category] \o visited(Tail(ds), category)

\* the body of the inner loop, run over the visited strings
RECURSIVE countLoop(_, _)
countLoop(list, countMap) ==
    IF list = <<>> THEN countMap
    ELSE LET normalized == normalize(Head(list))
         IN countLoop(Tail(list),
                      IF normalized # <<>>
                      THEN mapSet(countMap, normalized,
                                  mapGetOr0(countMap, normalized) + 1)
                      ELSE countMap)

categoryIndex(category) == CHOOSE i \in DOMAIN CATEGORIES : CATEGORIES[i] = category

\* the map declared once, before the loop over the categories, instead of
\* once per category: a category's counts start from the earlier categories'
RECURSIVE countMapHoistedUpTo(_, _)
countMapHoistedUpTo(ds, i) ==
    IF i = 0 THEN <<>>
    ELSE countLoop(visited(ds, CATEGORIES[i]), countMapHoistedUpTo(ds, i - 1))

countMapHoisted(ds, category) == countMapHoistedUpTo(ds, categoryIndex(category))

\* the strings counted under their raw spelling
RECURSIVE countLoopRaw(_, _)
countLoopRaw(list, countMap) ==
    IF list = <<>> THEN countMap
    ELSE countLoopRaw(Tail(list),
                      IF trim(Head(list)) # <<>>
                      THEN mapSet(countMap, toLowerCase(Head(list)),
                                  mapGetOr0(countMap, toLowerCase(Head(list))) + 1)
                      ELSE countMap)

countMapUntrimmed(ds, category) == countLoopRaw(visited(ds, category), <<>>)

\* the loop without its guard: a string that normalizes to '' is counted too
RECURSIVE countLoopNoGuard(_, _)
countLoopNoGuard(list, countMap) ==
    IF list = <<>> THEN countMap
    ELSE LET normalized == normalize(Head(list))
         IN countLoopNoGuard(Tail(list),
                             mapSet(countMap, normalized,
                                    mapGetOr0(countMap, normalized) + 1))

countMapUnguarded(ds, category) == countLoopNoGuard(visited(ds, category), <<>>)

\* the countMap of one category after the loop over the dishes
countMapOf(ds, category) == countLoop(visited(ds, category), <<>>)

\* '+'.repeat(n)
repeat(c, n) == [i \in 1..n |-> c]

\* one '+' per occurrence
displayOnePlusEach(nm, count) ==
    IF count = 1 THEN nm ELSE nm \o <<" ">> \o repeat("+", count)

\* count === 1 ? name : `${name} ${'+'.repeat(count - 1)}`
displayOf(nm, count) ==
    IF count = 1 THEN nm ELSE nm \o <<" ">> \o repeat("+", count - 1)

\* the .map callback: a map entry to a ConsolidatedIngredient
ConsolidatedIngredient(entry) ==
    [name |-> entry[1], count |-> entry[2],
     display |-> displayOf(entry[1], entry[2])]

\* Two characters outside ASCII, named by their code points: the letter e
\* with acute accent, and the combining acute accent.  U+00E9 and the pair
\* e, U+0301 are two spellings of one letter (canonically equivalent).
EAcute == "U+00E9"
CombiningAcute == "U+0301"

\* canonical decomposition of a string
RECURSIVE nfd(_)
nfd(s) ==
    IF s = <<>> THEN <<>>
    ELSE (IF Head(s) = EAcute THEN <<"e", CombiningAcute>> ELSE <<Head(s)>>)
         \o nfd(Tail(s))

\* the collation weights of a character at the three levels of the root
\* collation: the letter (white space before letters, an accent none), the
\* accent, the case (lower before upper)
primary(c) ==
    CASE c = "\t" -> 1
      [] c = " " -> 2
      [] c \in {"a", "A"} -> 3
      [] c \in {"b", "B"} -> 4
      [] c = "e" -> 5
      [] c = "l" -> 6
      [] c = "p" -> 7
      [] OTHER -> 8

hasPrimary(c) == c # CombiningAcute
secondary(c) == IF c = CombiningAcute THEN 2 ELSE 1
tertiary(c) == IF c \in {"A", "B"} THEN 2 ELSE 1

\* lexicographic comparison of two sequences of weights: -1, 0 or 1
RECURSIVE compareWeights(_, _)
compareWeights(a, b) ==
    IF a = <<>> /\ b = <<>> THEN 0
    ELSE IF a = <<>> THEN -1
    ELSE IF b = <<>> THEN 1
    ELSE IF Head(a) < Head(b) THEN -1
    ELSE IF Head(a) > Head(b) THEN 1
    ELSE compareWeights(Tail(a), Tail(b))

\* String.prototype.localeCompare: the strings are compared letter by
\* letter, then accent by accent, then case by case, on their canonical
\* decompositions; canonically equivalent strings compare equal (0)
localeCompare(a, b) ==
    LET x == nfd(a)
        y == nfd(b)
        px == SelectSeq(x, hasPrimary)
        py == SelectSeq(y, hasPrimary)
        p == compareWeights([i \in DOMAIN px |-> primary(px[i])],
                            [i \in DOMAIN py |-> primary(py[i])])
        q == compareWeights([i \in DOMAIN x |-> secondary(x[i])],
                            [i \in DOMAIN y |-> secondary(y[i])])
        r == compareWeights([i \in DOMAIN x |-> tertiary(x[i])],
                            [i \in DOMAIN y |-> tertiary(y[i])])
    IN IF p # 0 THEN p ELSE IF q # 0 THEN q ELSE r

\* one step of a stable sort: x goes after every element not greater than it
RECURSIVE insertSorted(_, _)
insertSorted(sorted, x) ==
    IF sorted = <<>> THEN <<x>>
    ELSE IF localeCompare(Head(sorted).name, x.name) <= 0
         THEN <<Head(sorted)>> \o insertSorted(Tail(sorted), x)
         ELSE <<x>> \o sorted

RECURSIVE sortFrom(_, _)
sortFrom(list, sorted) ==
    IF list = <<>> THEN sorted
    ELSE sortFrom(Tail(list), insertSorted(sorted, Head(list)))

\* .sort((a, b) => a.name.localeCompare(b.name)); Array.prototype.sort is stable
sortByName(list) == sortFrom(list, <<>>)

\* result[category] assigned only for the categories that have an entry
consolidateIngredientsSparse(ds) ==
    [category \in {c \in CategoryName : countMapOf(ds, c) # <<>>} |->
        LET countMap == countMapOf(ds, category)
        IN sortByName([i \in DOMAIN countMap |-> ConsolidatedIngredient(countMap[i])])]

\* the loop over CATEGORIES assigns result[category] for each of the three
consolidateIngredients(ds) ==
    [category \in CategoryName |->
        LET countMap == countMapOf(ds, category)
        IN sortByName([i \in DOMAIN countMap |-> ConsolidatedIngredient(countMap[i])])]

----------------------------------------------------------------------------
(* Arguments of consolidateIngredients *)

\* The dishes are drawn slot by slot.  A slot is one category of one dish;
\* slot s of k dishes is category (s - 1) % 3 + 1 of dish (s - 1) \div 3 + 1.
\* n ingredient strings are dealt to the slots by a non-decreasing function
\* 1..n -> slots, so that every sequence of k dishes holding n strings in all
\* is drawn exactly once.
NonDecreasing(f) == \A p, q \in DOMAIN f : p <= q => f[p] <= f[q]

\* the strings dealt to one slot, in their order
dealt(slots, strs, slot) ==
    LET at == {p \in DOMAIN slots : slots[p] = slot}
        first == CHOOSE p \in at : \A q \in at : p <= q
    IN [j \in 1..Cardinality(at) |-> strs[first + j - 1]]

dishesDealt(k, slots, strs) ==
    [i \in 1..k |->
        Dish(ToString(i), <<"a">>,
             [c \in CategoryName |->
                 dealt(slots, strs, (i - 1) * Len(CATEGORIES) + categoryIndex(c))])]

\* the ingredient strings of the selected dishes: whitespace only, and three
\* ingredients, the first in two spellings
SelectedStr == IngredientStr \ {<<>>}

\* the ingredient strings of the dishes whose sorting is checked: three
\* ingredients in descending order, one in upper case, and one more in its
\* two canonically equivalent spellings
SortedStr ==
    { <<"B">>, <<"a", " ", "b">>, <<"a">>, <<EAcute>>, <<"e", CombiningAcute>> }

\* dishes is any sequence of at most MaxDishes dishes that holds at most
\* MaxEntries ingredient strings in all, each taken from pool
DishesOver(pool) ==
    /\ \E k \in 0..MaxDishes, n \in 0..MaxEntries :
          \E slots \in [1..n -> 1..(k * Len(CATEGORIES))] :
             /\ NonDecreasing(slots)
             /\ \E strs \in [1..n -> pool] :
                   dishes = dishesDealt(k, slots, strs)
    /\ name = <<>>
    /\ existingDishes = <<>>
    /\ editingId = undefined
    /\ ingredients = EmptyIngredients
    /\ consolidatedList = [c \in {"Fruit shop", "Butchery", "Supermarket"} |-> <<>>]
    /\ NoApp
    /\ pc = "start"
    /\ ret = NoRet

InitConsolidate == DishesOver(SelectedStr)

InitSort == DishesOver(SortedStr)

\* consolidateIngredients with the sort applied to the dish's own array
\* (dish.ingredients[category].sort()) before it is counted
ConsolidateIngredientsCallSortingInput ==
    /\ pc = "start"
    /\ pc' = "consolidateIngredients"
    /\ ret' = consolidateIngredients(dishes)
    /\ dishes' = [d \in DOMAIN dishes |->
                    [dishes[d] EXCEPT !.ingredients =
                        [c \in CategoryName |->
                            LET sorted == sortByName([i \in DOMAIN dishes[d].ingredients[c] |->
                                              [name |-> dishes[d].ingredients[c][i]]])
                            IN [i \in DOMAIN sorted |-> sorted[i].name]]]]
    /\ UNCHANGED <<name, existingDishes, editingId, ingredients,
                   consolidatedList, appVars>>

\* a call of consolidateIngredients(dishes)
ConsolidateIngredientsCall ==
    /\ pc = "start"
    /\ pc' = "consolidateIngredients"
    /\ ret' = consolidateIngredients(dishes)
    /\ UNCHANGED <<name, existingDishes, editingId, ingredients, dishes,
                   consolidatedList, appVars>>

NextConsolidate == ConsolidateIngredientsCall

SpecConsolidate == InitConsolidate /\ [][NextConsolidate]_vars

SpecSort == InitSort /\ [][NextConsolidate]_vars

----------------------------------------------------------------------------
(* Properties of consolidateIngredients *)

\* the places <<dish, index>> of the strings of category c that normalize to k
Occurrences(ds, c, k) ==
    {<<d, i>> \in (DOMAIN ds) \X (1..MaxEntries) :
        /\ i \in DOMAIN ds[d].ingredients[c]
        /\ toLowerCase(trim(ds[d].ingredients[c][i])) = k}

\* the canonical keys of the strings of category c
KeysOf(ds, c) ==
    {toLowerCase(trim(ds[d].ingredients[c][i])) :
        <<d, i>> \in {p \in (DOMAIN ds) \X (1..MaxEntries) :
                        p[2] \in DOMAIN ds[p[1]].ingredients[c]}} \ {<<>>}

\* C7: the output for category c has an entry named k if and only if some
\* ingredient string of category c normalizes to k, and that entry's count is
\* the number of such strings, over all dishes and inside each dish.
C7_EntryPerKeyWithCount ==
    Returned("consolidateIngredients") =>
        \A c \in CategoryName :
            /\ {ret[c][i].name : i \in DOMAIN ret[c]} = KeysOf(dishes, c)
            /\ \A i \in DOMAIN ret[c] :
                  ret[c][i].count =
                      Cardinality(Occurrences(dishes, c, ret[c][i].name))

\* three spellings of one ingredient, in two dishes, give one entry of count 3
C7_Witness ==
    /\ Returned("consolidateIngredients")
    /\ Len(dishes) = 2
    /\ \E c \in CategoryName :
          /\ dishes[1].ingredients[c] = << <<"a">>, <<" ", "A", " ">> >>
          /\ dishes[2].ingredients[c] = << <<"a">> >>
          /\ ret[c] = << [name |-> <<"a">>, count |-> 3,
                          display |-> <<"a", " ", "+", "+">>] >>

\* C8: display is name when count is 1, and otherwise name, one space and
\* count - 1 '+' characters.
C8_DisplayFormat ==
    Returned("consolidateIngredients") =>
        \A c \in CategoryName : \A i \in DOMAIN ret[c] :
            LET e == ret[c][i]
            IN /\ e.count >= 1
               /\ e.count = 1 => e.display = e.name
               /\ e.count > 1 =>
                     /\ Len(e.display) = Len(e.name) + e.count
                     /\ SubSeq(e.display, 1, Len(e.name)) = e.name
                     /\ e.display[Len(e.name) + 1] = " "
                     /\ \A j \in (Len(e.name) + 2)..Len(e.display) :
                           e.display[j] = "+"

\* one category with an entry of count 1 and one of count 2
C8_Witness ==
    /\ Returned("consolidateIngredients")
    /\ \E c \in CategoryName : \E i, j \in DOMAIN ret[c] :
          /\ ret[c][i].count = 1 /\ ret[c][i].display = <<"b">>
          /\ ret[c][j].count = 2 /\ ret[c][j].display = <<"a", " ", "+">>

\* C9: the output of a category is strictly ascending by name: no name
\* twice, and each name sorts after the one before it.  Two canonically
\* equivalent spellings are two keys of the map that localeCompare orders
\* equal, so the formula is violated under SpecSort.
C9_StrictlyAscendingByName ==
    Returned("consolidateIngredients") =>
        \A c \in CategoryName :
            /\ \A i, j \in DOMAIN ret[c] :
                  i < j => localeCompare(ret[c][i].name, ret[c][j].name) < 0
            /\ \A i, j \in DOMAIN ret[c] :
                  ret[c][i].name = ret[c][j].name => i = j

\* the dishes with every category but c emptied
OnlyCategory(ds, c) ==
    [d \in DOMAIN ds |->
        [ds[d] EXCEPT !.ingredients =
            [x \in CategoryName |-> IF x = c THEN ds[d].ingredients[c] ELSE <<>>]]]

\* C10: the output for a category depends only on the entries of that
\* category: it is the output for the dishes with the other categories
\* emptied, and a string present in two categories is counted in each.
C10_CategoryIndependence ==
    Returned("consolidateIngredients") =>
        \A c \in CategoryName :
            /\ ret[c] = consolidateIngredients(OnlyCategory(dishes, c))[c]
            /\ \A i \in DOMAIN ret[c] :
                  ret[c][i].count <=
                      Cardinality({<<d, j>> \in (DOMAIN dishes) \X (1..MaxEntries) :
                                      j \in DOMAIN dishes[d].ingredients[c]})

\* the same string twice in one category and once in another: counted 2 and 1
C10_Witness ==
    /\ Returned("consolidateIngredients")
    /\ \E c1, c2 \in CategoryName :
          /\ c1 # c2
          /\ ret[c1] = << [name |-> <<"a">>, count |-> 2,
                           display |-> <<"a", " ", "+">>] >>
          /\ ret[c2] = << [name |-> <<"a">>, count |-> 1,
                           display |-> <<"a">>] >>
          /\ \A d \in DOMAIN dishes : \A c \in {c1, c2} :
                \A i \in DOMAIN dishes[d].ingredients[c] :
                    dishes[d].ingredients[c][i] = <<"a">>

----------------------------------------------------------------------------
(* consolidateIngredients on dishes with blank entries *)

\* the ingredient strings of the dishes with blank rows: the empty string,
\* two whitespace-only strings, and one ingredient in two spellings
BlankStr == { <<>>, <<" ">>, <<"\t", " ">>, <<"a">>, <<" ", "A", " ">> }

InitBlank == DishesOver(BlankStr)

SpecBlank == InitBlank /\ [][NextConsolidate]_vars

\* the strings of a list that are not blank, in their order
RECURSIVE nonBlankOf(_)
nonBlankOf(l) ==
    IF l = <<>> THEN <<>>
    ELSE (IF Blank(Head(l)) THEN <<>> ELSE <<Head(l)>>) \o nonBlankOf(Tail(l))

\* the dishes with every blank ingredient string removed
WithoutBlank(ds) ==
    [d \in DOMAIN ds |->
        [ds[d] EXCEPT !.ingredients =
            [c \in CategoryName |-> nonBlankOf(ds[d].ingredients[c])]]]

\* C11: blank ingredient strings are invisible: the result is the result for
\* the dishes with every empty or whitespace-only string removed, so adding
\* or removing such strings anywhere changes nothing, and no entry has an
\* empty name.
C11_BlankEntriesInvisible ==
    Returned("consolidateIngredients") =>
        /\ ret = consolidateIngredients(WithoutBlank(dishes))
        /\ \A c \in CategoryName : \A i \in DOMAIN ret[c] : ret[c][i].name # <<>>

\* a whitespace-only string after an ingredient, and an empty string in
\* another category: one entry of count 1 and nothing else
C11_Witness ==
    /\ Returned("consolidateIngredients")
    /\ Len(dishes) = 1
    /\ \E c, e \in CategoryName :
          /\ c # e
          /\ dishes[1].ingredients[c] = << <<" ", "A", " ">>, <<"\t", " ">> >>
          /\ dishes[1].ingredients[e] = << <<>> >>
          /\ ret[e] = <<>>
          /\ ret[c] = << [name |-> <<"a">>, count |-> 1,
                          display |-> <<"a">>] >>

\* no dish of ds has an ingredient string
NoIngredient(ds) ==
    \A d \in DOMAIN ds : \A c \in CategoryName : ds[d].ingredients[c] = <<>>

\* C13: the result has exactly the three registry categories as keys, and
\* all three sequences are empty for no dish and for dishes without any
\* ingredient.
C13_ThreeCategoriesAlways ==
    Returned("consolidateIngredients") =>
        /\ DOMAIN ret = {"Fruit shop", "Butchery", "Supermarket"}
        /\ NoIngredient(dishes) =>
              \A c \in {"Fruit shop", "Butchery", "Supermarket"} : ret[c] = <<>>

\* two dishes without any ingredient: three empty sequences
C13_Witness ==
    /\ Returned("consolidateIngredients")
    /\ Len(dishes) = 2
    /\ NoIngredient(dishes)
    /\ ret = [c \in {"Fruit shop", "Butchery", "Supermarket"} |-> <<>>]

\* the upper-case letters of the model
UpperChar == {"A", "B"}

\* C15: every entry is a ConsolidatedIngredient: its name is not empty, has
\* no whitespace at either end and no upper-case letter, and its count is an
\* integer of at least 1.
C15_ConsolidatedIngredientInvariant ==
    Returned("consolidateIngredients") =>
        \A c \in CategoryName : \A i \in DOMAIN ret[c] :
            LET e == ret[c][i]
            IN /\ e.name # <<>>
               /\ e.name[1] \notin Whitespace
               /\ e.name[Len(e.name)] \notin Whitespace
               /\ \A j \in DOMAIN e.name : e.name[j] \notin UpperChar
               /\ e.name = toLowerCase(trim(e.name))
               /\ e.count \in Nat
               /\ e.count >= 1

\* the only ingredient typed in upper case between spaces: named "a"
C15_Witness ==
    /\ Returned("consolidateIngredients")
    /\ \E c \in CategoryName :
          /\ \A d \in DOMAIN dishes : \A i \in DOMAIN dishes[d].ingredients[c] :
                dishes[d].ingredients[c][i] \in {<<" ", "A", " ">>, <<" ">>}
          /\ Len(ret[c]) = 1
          /\ ret[c][1].name = <<"a">>
          /\ ret[c][1].count = 2

----------------------------------------------------------------------------
(* formatConsolidatedListForClipboard *)

\* the characters of a category name
categoryText(category) ==
    CASE category = "Fruit shop" -> <<"F", "r", "u", "i", "t", " ", "s", "h", "o", "p">>
      [] category = "Butchery" -> <<"B", "u", "t", "c", "h", "e", "r", "y">>
      [] category = "Supermarket" ->
            <<"S", "u", "p", "e", "r", "m", "a", "r", "k", "e", "t">>

\* Array.prototype.join
RECURSIVE join(_, _)
join(strs, sep) ==
    IF strs = <<>> THEN <<>>
    ELSE IF Len(strs) = 1 THEN strs[1]
    ELSE strs[1] \o sep \o join(Tail(strs), sep)

\* the item written from the name, without the count marker
itemOfName(ing) == <<" ", " ", "-", " ">> \o ing.name

\* `  - ${ing.display}`
itemOf(ing) == <<" ", " ", "-", " ">> \o ing.display

\* `${category}:\n${items}`
sectionOf(cl, category) ==
    LET items == join([i \in DOMAIN cl[category] |-> itemOf(cl[category][i])],
                      <<"\n">>)
    IN categoryText(category) \o <<":", "\n">> \o items

\* the loop over CATEGORIES without its guard: a section for every category
RECURSIVE sectionsAllFrom(_, _)
sectionsAllFrom(cl, i) ==
    IF i > Len(CATEGORIES) THEN <<>>
    ELSE <<sectionOf(cl, CATEGORIES[i])>> \o sectionsAllFrom(cl, i + 1)

formatKeepingEmpty(cl) == join(sectionsAllFrom(cl, 1), <<"\n", "\n">>)

\* the loop over CATEGORIES from the i-th on: the sections pushed
RECURSIVE sectionsFrom(_, _)
sectionsFrom(cl, i) ==
    IF i > Len(CATEGORIES) THEN <<>>
    ELSE (IF Len(cl[CATEGORIES[i]]) > 0
          THEN <<sectionOf(cl, CATEGORIES[i])>>
          ELSE <<>>) \o sectionsFrom(cl, i + 1)

formatConsolidatedListForClipboard(cl) ==
    join(sectionsFrom(cl, 1), <<"\n", "\n">>)

----------------------------------------------------------------------------
(* Arguments of formatConsolidatedListForClipboard *)

\* most entries in one category of the list to format
MaxItems == 2

\* the entries of the lists to format: two as consolidateIngredients makes
\* them, and one whose display is not what its name and count give
FormattedEntry ==
    { [name |-> <<"a">>, count |-> 1, display |-> <<"a">>],
      [name |-> <<"b">>, count |-> 2, display |-> <<"b", " ", "+">>],
      [name |-> <<"c">>, count |-> 3, display |-> <<"x">>] }

InitFormat ==
    /\ consolidatedList \in [CategoryName -> SeqsUpTo(FormattedEntry, MaxItems)]
    /\ name = <<>>
    /\ existingDishes = <<>>
    /\ editingId = undefined
    /\ ingredients = EmptyIngredients
    /\ dishes = <<>>
    /\ NoApp
    /\ pc = "start"
    /\ ret = NoRet

\* a call of formatConsolidatedListForClipboard(consolidatedList)
FormatConsolidatedListForClipboardCall ==
    /\ pc = "start"
    /\ pc' = "formatConsolidatedListForClipboard"
    /\ ret' = formatConsolidatedListForClipboard(consolidatedList)
    /\ UNCHANGED <<name, existingDishes, editingId, ingredients, dishes,
                   consolidatedList, appVars>>

NextFormat == FormatConsolidatedListForClipboardCall

SpecFormat == InitFormat /\ [][NextFormat]_vars

----------------------------------------------------------------------------
(* Properties of formatConsolidatedListForClipboard *)

\* the lines of a text: the pieces between its newline characters
RECURSIVE linesFrom(_, _)
linesFrom(text, line) ==
    IF text = <<>> THEN <<line>>
    ELSE IF Head(text) = "\n" THEN <<line>> \o linesFrom(Tail(text), <<>>)
    ELSE linesFrom(Tail(text), Append(line, Head(text)))

LinesOf(text) == linesFrom(text, <<>>)

\* the categories of cl that have an entry, in registry order
NonEmptyCategories(cl) ==
    SelectSeq(CATEGORIES, LAMBDA c : cl[c] # <<>>)

\* the lines of the block of one category: its header, then its entries
BlockLines(cl, c) ==
    <<categoryText(c) \o <<":">> >>
    \o [i \in DOMAIN cl[c] |-> <<" ", " ", "-", " ">> \o cl[c][i].display]

\* the lines of the blocks of the categories cs, an empty line between two
RECURSIVE TextLines(_, _)
TextLines(cl, cs) ==
    IF cs = <<>> THEN <<>>
    ELSE BlockLines(cl, Head(cs))
         \o (IF Tail(cs) = <<>> THEN <<>> ELSE << <<>> >>)
         \o TextLines(cl, Tail(cs))

\* C12: the text is, for each category in registry order that has an entry,
\* the line "<category>:" and one line "  - <display>" per entry in order,
\* with the stored display; one empty line between two blocks; nothing for an
\* empty category; no newline at either end; '' when all three are empty.
C12_ClipboardText ==
    Returned("formatConsolidatedListForClipboard") =>
        LET cs == NonEmptyCategories(consolidatedList)
        IN /\ cs = <<>> <=> ret = <<>>
           /\ cs # <<>> =>
                 /\ LinesOf(ret) = TextLines(consolidatedList, cs)
                 /\ ret[1] # "\n"
                 /\ ret[Len(ret)] # "\n"

\* the first and the last category hold entries, one with a display that is
\* not what its name and count give; the middle one is empty
C12_Witness ==
    /\ Returned("formatConsolidatedListForClipboard")
    /\ consolidatedList["Butchery"] = <<>>
    /\ Len(consolidatedList["Fruit shop"]) = 2
    /\ \E i \in DOMAIN consolidatedList["Supermarket"] :
          consolidatedList["Supermarket"][i].display = <<"x">>
    /\ Len(LinesOf(ret)) = 5 + Len(consolidatedList["Supermarket"])

----------------------------------------------------------------------------
(* The shopping list copied: BrowseDishes and ConsolidatedList *)

\* the ingredient strings of the dishes whose list is copied: one ingredient
\* in two spellings, a second one, and a blank row
CopiedStr ==
    { <<"A", "p", "p", "l", "e">>, <<"a", "p", "p", "l", "e">>, <<"B">>, <<" ">> }

InitCopy == DishesOver(CopiedStr)

\* BrowseDishes: consolidatedList = useMemo(() => consolidateIngredients(...))
UseMemoConsolidatedList ==
    /\ pc = "start"
    /\ pc' = "useMemo"
    /\ consolidatedList' = consolidateIngredients(dishes)
    /\ UNCHANGED <<name, existingDishes, editingId, ingredients, dishes,
                   appVars, ret>>

\* ConsolidatedList.handleCopy: the text handed to the clipboard
HandleCopy ==
    /\ pc = "useMemo"
    /\ pc' = "handleCopy"
    /\ ret' = formatConsolidatedListForClipboard(consolidatedList)
    /\ UNCHANGED <<name, existingDishes, editingId, ingredients, dishes,
                   consolidatedList, appVars>>

NextCopy == UseMemoConsolidatedList \/ HandleCopy

SpecCopy == InitCopy /\ [][NextCopy]_vars

\* the item lines of the block of category c among the lines of a text: the
\* lines after the header "<c>:" up to the next empty line or the end
ItemLines(lines, c) ==
    LET header == categoryText(c) \o <<":">>
    IN IF \A i \in DOMAIN lines : lines[i] # header THEN <<>>
       ELSE LET h == CHOOSE i \in DOMAIN lines : lines[i] = header
                last == CHOOSE j \in h..Len(lines) :
                           /\ \A i \in (h + 1)..j : lines[i] # <<>>
                           /\ j = Len(lines) \/ lines[j + 1] = <<>>
            IN SubSeq(lines, h + 1, last)

\* the line of the ingredient of key k that occurs n times
LineFor(k, n) ==
    <<" ", " ", "-", " ">> \o k
    \o (IF n = 1 THEN <<>> ELSE <<" ">> \o [i \in 1..(n - 1) |-> "+"])

\* the text "Fruit shop:\n  - apple ++"
AppleText ==
    <<"F", "r", "u", "i", "t", " ", "s", "h", "o", "p", ":", "\n",
      " ", " ", "-", " ", "a", "p", "p", "l", "e", " ", "+", "+">>

\* the dishes [{Fruit shop: ["Apple", "Apple"]}, {Fruit shop: ["apple"]}]
AppleDishes(ds) ==
    /\ Len(ds) = 2
    /\ ds[1].ingredients =
          [EmptyIngredients EXCEPT !["Fruit shop"] =
              << <<"A", "p", "p", "l", "e">>, <<"A", "p", "p", "l", "e">> >>]
    /\ ds[2].ingredients =
          [EmptyIngredients EXCEPT !["Fruit shop"] =
              << <<"a", "p", "p", "l", "e">> >>]

\* C14: the text copied for the two apple dishes is "Fruit shop:\n  - apple
\* ++"; for any dishes, the block of a category has one line per canonical
\* key of the category, with its count marker, in ascending order of the
\* keys, and the text is '' if and only if every ingredient string is blank.
C14_CopiedText ==
    pc = "handleCopy" =>
        /\ AppleDishes(dishes) => ret = AppleText
        /\ ret = <<>> <=>
              \A d \in DOMAIN dishes : AllBlank(dishes[d].ingredients)
        /\ \A c \in CategoryName :
              LET il == ItemLines(LinesOf(ret), c)
                  keyAt(i) == CHOOSE k \in KeysOf(dishes, c) :
                      il[i] = LineFor(k, Cardinality(Occurrences(dishes, c, k)))
              IN /\ Len(il) = Cardinality(KeysOf(dishes, c))
                 /\ \A k \in KeysOf(dishes, c) : \E i \in DOMAIN il :
                       il[i] = LineFor(k, Cardinality(Occurrences(dishes, c, k)))
                 /\ \A i, j \in DOMAIN il :
                       i < j => localeCompare(keyAt(i), keyAt(j)) <= 0

\* the two apple dishes, copied
C14_Witness ==
    /\ pc = "handleCopy"
    /\ AppleDishes(dishes)
    /\ ret = AppleText

----------------------------------------------------------------------------
(* The five functions called in any order on the same data *)

\* two dishes whose ingredient strings are neither sorted nor normalized
UnsortedDishes ==
    << Dish("1", <<"b">>,
            [EmptyIngredients EXCEPT !["Fruit shop"] = << <<"B">>, <<" ", "A", " ">> >>]),
       Dish("2", <<"a">>,
            [EmptyIngredients EXCEPT !["Fruit shop"] = << <<"a">>, <<>> >>,
                                     !["Butchery"] = << <<"B">> >>]) >>

InitCore ==
    /\ name \in {<<>>, <<"A", " ">>, <<"b">>}
    /\ existingDishes \in {<<>>, UnsortedDishes}
    /\ editingId \in {undefined, "1"}
    /\ ingredients \in {EmptyIngredients, UnsortedDishes[1].ingredients}
    /\ dishes \in {<<>>, UnsortedDishes}
    /\ consolidatedList \in
          { [c \in CategoryName |-> <<>>],
            [c \in CategoryName |->
                IF c = "Butchery" THEN <<>>
                ELSE << [name |-> <<"b">>, count |-> 1, display |-> <<"b">>],
                        [name |-> <<"a">>, count |-> 2, display |-> <<"a", " ", "+">>] >>] }
    /\ NoApp
    /\ pc = "start"
    /\ ret = NoRet

\* the caller takes the result; the next call sees the same arguments
CallerTakesResult ==
    /\ pc # "start"
    /\ pc' = "start"
    /\ ret' = NoRet
    /\ UNCHANGED <<name, existingDishes, editingId, ingredients, dishes,
                   consolidatedList, appVars>>

NextCore ==
    \/ ValidateDishNameCall
    \/ ValidateIngredientsCall
    \/ ValidateDishCall
    \/ ConsolidateIngredientsCall
    \/ FormatConsolidatedListForClipboardCall
    \/ CallerTakesResult

SpecCore == InitCore /\ [][NextCore]_vars

\* the arguments of the five functions
coreArgs ==
    <<name, existingDishes, editingId, ingredients, dishes, consolidatedList>>

\* C16: no call of validateDishName, validateIngredients, validateDish,
\* consolidateIngredients or formatConsolidatedListForClipboard changes an
\* argument: the dishes, the ingredient sequences and the consolidated list
\* hold the same elements in the same order after every step, so every call
\* is made on the data the first one saw.
C16_InputsNeverMutated == [][coreArgs' = coreArgs]_vars

\* consolidateIngredients has returned a sorted, normalized list for dishes
\* that are still neither
C16_Witness ==
    /\ Returned("consolidateIngredients")
    /\ dishes = UnsortedDishes
    /\ ret["Fruit shop"] =
          << [name |-> <<"a">>, count |-> 2, display |-> <<"a", " ", "+">>],
             [name |-> <<"b">>, count |-> 1, display |-> <<"b">>] >>

----------------------------------------------------------------------------
(* The application: App, CreateDishForm and useFirestore, in the browsers   *)
(* that share one Firestore collection                                     *)

\* most dishes saved (created or updated) in a run
MaxSaves == 2

\* the value of editingDish when no dish is edited
noDish == [id |-> "null"]

\* a Dish of the collection, createdAt included
StoredDish(id, n, ing, createdAt) ==
    [id |-> id, name |-> n, ingredients |-> ing, createdAt |-> createdAt]

\* getEmptyIngredients(): one empty row per category
getEmptyIngredients == [c \in CategoryName |-> << <<>> >>]

\* editingDish?.id
idOf(editingDish) == IF editingDish = noDish THEN undefined ELSE editingDish.id

\* the documents of the collection in the order of their ids, as a snapshot
\* lists them
DocOrder == <<"1", "2", "3", "4", "5">>

snapshotOf(docs) ==
    LET ids == SelectSeq(DocOrder, LAMBDA i : \E d \in docs : d.id = i)
    IN [k \in DOMAIN ids |-> CHOOSE d \in docs : d.id = ids[k]]

\* setDoc(doc(db, 'dishes', dish.id), dish)
setDoc(docs, dish) == {d \in docs : d.id # dish.id} \cup {dish}

\* deleteDoc(doc(db, 'dishes', id))
deleteDoc(docs, id) == {d \in docs : d.id # id}

\* the state of CreateDishForm when it mounts
mountedForm(a) ==
    [a EXCEPT !.name = <<>>, !.ingredients = getEmptyIngredients,
              !.errors = <<>>, !.prevEditingDishId = "null"]

\* the rows the form shows for one category of the dish being edited
rowsOf(l) == IF Len(l) > 0 THEN l ELSE << <<>> >>

\* CreateDishForm's render: when the id of editingDish is not the one the
\* form last saw, the form is filled from editingDish, or emptied
render(a) ==
    LET currentEditingDishId ==
            IF a.editingDish = noDish THEN "null" ELSE a.editingDish.id
    IN IF a.activeTab # "create" \/ currentEditingDishId = a.prevEditingDishId
       THEN a
       ELSE IF a.editingDish # noDish
       THEN [a EXCEPT !.prevEditingDishId = currentEditingDishId,
                      !.name = a.editingDish.name,
                      !.ingredients =
                          [c \in CategoryName |-> rowsOf(a.editingDish.ingredients[c])],
                      !.errors = <<>>]
       ELSE [a EXCEPT !.prevEditingDishId = currentEditingDishId,
                      !.name = <<>>,
                      !.ingredients = getEmptyIngredients,
                      !.errors = <<>>]

\* resetForm
resetForm(a) ==
    [a EXCEPT !.name = <<>>, !.ingredients = getEmptyIngredients, !.errors = <<>>]

\* the rows trimmed but not filtered
cleanedRowsUnfiltered(rows) == [i \in DOMAIN rows |-> trim(rows[i])]

\* ingredients[category].map(i => i.trim()).filter(i => i !== '')
RECURSIVE cleanedRows(_)
cleanedRows(rows) ==
    IF rows = <<>> THEN <<>>
    ELSE (IF trim(Head(rows)) # <<>> THEN <<trim(Head(rows))>> ELSE <<>>)
         \o cleanedRows(Tail(rows))

cleanedIngredientsOf(ing) == [c \in CategoryName |-> cleanedRows(ing[c])]

\* createdAt set on every save, an edit included
dishToSaveRestamped(editingDish, dishData, uuid, now) ==
    StoredDish(IF editingDish # noDish THEN editingDish.id ELSE uuid,
               dishData.name, dishData.ingredients, now)

\* the dish handleSaveDish writes for the data the form hands to onSave:
\* { ...editingDish, ...dishData } for an edit, and for a new dish
\* { ...dishData, id: crypto.randomUUID(), createdAt: new Date().toISOString() }
dishToSave(editingDish, dishData, uuid, now) ==
    IF editingDish # noDish
    THEN [editingDish EXCEPT !.name = dishData.name,
                             !.ingredients = dishData.ingredients]
    ELSE StoredDish(uuid, dishData.name, dishData.ingredients, now)

\* the names typed into the form: a name, and the same name in upper case
\* followed by a space
TypedName == {<<"a">>, <<"A", " ">>}

\* the categories rows are typed into in a single browser
TypedCategory == {"Fruit shop"}

\* the names typed into the form of a single browser: none and a second
\* name as well
TypedNameAlone == TypedName \cup {<<>>, <<"b">>}

\* the rows typed into one category: an untrimmed ingredient and a blank row
TypedRows == { << <<" ", "a">>, <<>> >> }

\* the collection when the clients start: empty, or one dish named "a"
InitialDocs ==
    { {},
      {StoredDish("1", <<"a">>,
                  [EmptyIngredients EXCEPT !["Butchery"] = << <<"b">> >>], 0)} }

\* App and CreateDishForm once the first snapshot has arrived (loading is
\* false): the create tab, no dish edited, an empty form
startedClient(docs) ==
    [dishes |-> snapshotOf(docs), activeTab |-> "create", editingDish |-> noDish,
     name |-> <<>>, ingredients |-> getEmptyIngredients, errors |-> <<>>,
     prevEditingDishId |-> "null", pending |-> 0]

\* the application started in the browsers cs
InitClients(cs) ==
    /\ store \in InitialDocs
    /\ app = [c \in cs |-> startedClient(store)]
    /\ NoHook
    /\ clock = 1
    /\ name = <<>>
    /\ existingDishes = <<>>
    /\ editingId = undefined
    /\ ingredients = EmptyIngredients
    /\ dishes = <<>>
    /\ consolidatedList = [c \in CategoryName |-> <<>>]
    /\ pc = "start"
    /\ ret = NoRet

\* what no step of the application changes
AppFrame ==
    UNCHANGED <<name, existingDishes, editingId, ingredients, dishes,
                consolidatedList, hookVars, pc, ret>>

\* useFirestore's onSnapshot callback: setDishes(dishList)
OnSnapshot(c) ==
    /\ app[c].dishes # snapshotOf(store)
    /\ app' = [app EXCEPT ![c].dishes = snapshotOf(store)]
    /\ UNCHANGED <<store, clock>>
    /\ AppFrame

\* onChange of the name input: setName(e.target.value)
SetName(c, n) ==
    /\ app[c].activeTab = "create"
    /\ n # app[c].name
    /\ app' = [app EXCEPT ![c].name = n]
    /\ UNCHANGED <<store, clock>>
    /\ AppFrame

\* handleCategoryChange(category, newIngredients)
HandleCategoryChange(c, category, newIngredients) ==
    /\ app[c].activeTab = "create"
    /\ newIngredients # app[c].ingredients[category]
    /\ app' = [app EXCEPT ![c].ingredients[category] = newIngredients]
    /\ UNCHANGED <<store, clock>>
    /\ AppFrame

\* handleSubmit without the return after setErrors: the dish is saved and
\* the form reset whatever validateDish returned
HandleSubmitNoReturn(c) ==
    LET a == app[c]
        cleanedIngredients == cleanedIngredientsOf(a.ingredients)
        dishData == [name |-> trim(a.name), ingredients |-> cleanedIngredients]
    IN /\ a.activeTab = "create"
       /\ clock <= MaxSaves
       /\ store' = setDoc(store, dishToSave(a.editingDish, dishData,
                                            ToString(clock + 1), clock))
       /\ clock' = clock + 1
       /\ app' = [app EXCEPT ![c] =
                    resetForm([a EXCEPT !.pending =
                                            IF a.editingDish # noDish
                                            THEN a.pending + 1
                                            ELSE a.pending])]
       /\ AppFrame

\* handleSubmit, with the part of handleSaveDish that runs before its first
\* await: the dish is written to the collection (setDoc) at once
HandleSubmit(c) ==
    LET a == app[c]
        cleanedIngredients == cleanedIngredientsOf(a.ingredients)
        validationErrors ==
            validateDish(a.name, cleanedIngredients, a.dishes, idOf(a.editingDish))
        dishData == [name |-> trim(a.name), ingredients |-> cleanedIngredients]
    IN /\ a.activeTab = "create"
       /\ clock <= MaxSaves
       /\ IF Len(validationErrors) > 0
          THEN /\ app' = [app EXCEPT ![c].errors = validationErrors]
               /\ UNCHANGED <<store, clock>>
          ELSE /\ store' = setDoc(store, dishToSave(a.editingDish, dishData,
                                                    ToString(clock + 1), clock))
               /\ clock' = clock + 1
               /\ app' = [app EXCEPT ![c] =
                            resetForm([a EXCEPT !.pending =
                                                    IF a.editingDish # noDish
                                                    THEN a.pending + 1
                                                    ELSE a.pending])]
       /\ AppFrame

\* handleSaveDish after await updateDish(...): setEditingDish(null)
UpdateDishResolved(c) ==
    /\ app[c].pending > 0
    /\ app' = [app EXCEPT ![c] =
                 render([app[c] EXCEPT !.pending = app[c].pending - 1,
                                       !.editingDish = noDish])]
    /\ UNCHANGED <<store, clock>>
    /\ AppFrame

\* handleEditDish(dish), from a card of the browse tab; the form mounts
HandleEditDish(c, i) ==
    /\ app[c].activeTab = "browse"
    /\ i \in DOMAIN app[c].dishes
    /\ app' = [app EXCEPT ![c] =
                 render([mountedForm(app[c]) EXCEPT
                            !.editingDish = app[c].dishes[i],
                            !.activeTab = "create"])]
    /\ UNCHANGED <<store, clock>>
    /\ AppFrame

\* handleCancel: resetForm(); onCancelEdit()
HandleCancel(c) ==
    /\ app[c].activeTab = "create"
    /\ app[c].editingDish # noDish
    /\ app' = [app EXCEPT ![c] =
                 render([resetForm(app[c]) EXCEPT !.editingDish = noDish])]
    /\ UNCHANGED <<store, clock>>
    /\ AppFrame

\* handleTabChange(tab) without its setEditingDish(null)
HandleTabChangeKeepingEdit(c, tab) ==
    /\ tab # app[c].activeTab
    /\ app' = [app EXCEPT ![c] =
                 IF tab = "browse"
                 THEN [mountedForm(app[c]) EXCEPT !.activeTab = tab]
                 ELSE render([app[c] EXCEPT !.activeTab = tab])]
    /\ UNCHANGED <<store, clock>>
    /\ AppFrame

\* handleTabChange(tab); the form unmounts with the create tab
HandleTabChange(c, tab) ==
    /\ tab # app[c].activeTab
    /\ app' = [app EXCEPT ![c] =
                 IF tab = "browse"
                 THEN [mountedForm(app[c]) EXCEPT !.activeTab = tab,
                                                  !.editingDish = noDish]
                 ELSE render([app[c] EXCEPT !.activeTab = tab])]
    /\ UNCHANGED <<store, clock>>
    /\ AppFrame

\* handleDeleteDish(id), from a card of the browse tab
HandleDeleteDish(c, i) ==
    /\ app[c].activeTab = "browse"
    /\ i \in DOMAIN app[c].dishes
    /\ store' = deleteDoc(store, app[c].dishes[i].id)
    /\ UNCHANGED <<app, clock>>
    /\ AppFrame

\* one browser, every handler
InitApp == InitClients({1})

NextApp ==
    \E c \in DOMAIN app :
        \/ OnSnapshot(c)
        \/ \E n \in TypedNameAlone : SetName(c, n)
        \/ \E category \in TypedCategory, newIngredients \in TypedRows :
              HandleCategoryChange(c, category, newIngredients)
        \/ HandleSubmit(c)
        \/ UpdateDishResolved(c)
        \/ \E i \in 1..Len(DocOrder) : HandleEditDish(c, i)
        \/ HandleCancel(c)
        \/ \E tab \in {"create", "browse"} : HandleTabChange(c, tab)
        \/ \E i \in 1..Len(DocOrder) : HandleDeleteDish(c, i)

SpecApp == InitApp /\ [][NextApp]_vars

\* two browsers in which dishes are created
InitShared == InitClients({1, 2})

NextShared ==
    \E c \in DOMAIN app :
        \/ OnSnapshot(c)
        \/ \E n \in TypedName : SetName(c, n)
        \/ \E newIngredients \in TypedRows :
              HandleCategoryChange(c, CATEGORIES[1], newIngredients)
        \/ HandleSubmit(c)

SpecShared == InitShared /\ [][NextShared]_vars

----------------------------------------------------------------------------
(* Properties of the create/edit form *)

\* a dish as it is persisted: three category keys, each a sequence of
\* non-blank strings without whitespace at either end, and such a name
Persistable(d) ==
    /\ DOMAIN d.ingredients = {"Fruit shop", "Butchery", "Supermarket"}
    /\ \A c \in DOMAIN d.ingredients : \A i \in DOMAIN d.ingredients[c] :
          LET s == d.ingredients[c][i]
          IN /\ s # <<>>
             /\ s[1] \notin Whitespace
             /\ s[Len(s)] \notin Whitespace
    /\ d.name = <<>> \/ (d.name[1] \notin Whitespace
                         /\ d.name[Len(d.name)] \notin Whitespace)

\* C17: every dish the form hands to onSave, which handleSaveDish writes to
\* the collection in the same step, has the three category keys, each with
\* non-blank trimmed strings only, and a trimmed name; no blank row of the
\* form is stored.
C17_SavedDishWellFormed ==
    [][\A c \in DOMAIN app : HandleSubmit(c) =>
          \A d \in store' \ store : Persistable(d)]_vars

\* a dish created from a form with an untrimmed name, an untrimmed row and
\* blank rows
C17_Witness ==
    \E d \in store :
        /\ d.id # "1"
        /\ d.name = <<"A">>
        /\ d.ingredients = [EmptyIngredients EXCEPT !["Fruit shop"] = << <<"a">> >>]

\* the rows of a form as validateDish is to see them: the blank rows left
\* out, the others trimmed
RowsToValidate(ing) ==
    [c \in CategoryName |->
        LET kept == nonBlankOf(ing[c])
        IN [i \in DOMAIN kept |-> trim(kept[i])]]

\* the errors validateDish finds in the form of browser c
FormErrors(c) ==
    validateDish(app[c].name, RowsToValidate(app[c].ingredients),
                 app[c].dishes, idOf(app[c].editingDish))

\* a submit of browser c called onSave: a dish was written, or an update is
\* awaited
OnSaveCalled(c) ==
    store' # store \/ app'[c].pending # app[c].pending

\* C18: a submit calls onSave if and only if validateDish returns no error
\* for the name, the cleaned rows, the dishes the form sees and the id of
\* the dish edited; with errors nothing is saved, the errors are stored, and
\* the name and the rows stay as entered; without, the form is reset.
C18_SaveOnlyWhenValid ==
    [][\A c \in DOMAIN app : HandleSubmit(c) =>
          /\ OnSaveCalled(c) <=> FormErrors(c) = <<>>
          /\ FormErrors(c) # <<>> =>
                /\ store' = store
                /\ app'[c].errors = FormErrors(c)
                /\ app'[c].name = app[c].name
                /\ app'[c].ingredients = app[c].ingredients
          /\ FormErrors(c) = <<>> =>
                /\ app'[c].name = <<>>
                /\ app'[c].errors = <<>>]_vars

\* a submit of the name of the stored dish, with rows typed: the duplicate
\* error is shown, the form keeps what was entered, nothing was saved
C18_Witness ==
    /\ app[1].errors = <<DuplicateName>>
    /\ app[1].name = <<"A", " ">>
    /\ app[1].ingredients["Fruit shop"] = << <<" ", "a">>, <<>> >>
    /\ Cardinality(store) = 1
    /\ clock = 1

----------------------------------------------------------------------------
(* Properties of the collection *)

\* C19: no two dishes of the collection have names that are equal after
\* trimming and lowercasing, whatever creates and edits the forms have
\* saved and whenever the snapshots arrived.  Each form validates against
\* the snapshot it holds, so the formula is violated under SpecShared.
C19_NamesStayUnique ==
    \A d, e \in store : d.id # e.id => ~SameName(d.name, e.name)

\* C20: the id and the createdAt of a dish never change: a document keeps
\* its createdAt in every step; the save of an edit writes the id and the
\* createdAt of the dish edited and changes only name and ingredients; the
\* save of a new dish writes an id no document has and the time of the save.
C20_IdAndCreatedAtImmutable ==
    [][/\ \A d \in store, e \in store' : d.id = e.id => e.createdAt = d.createdAt
       /\ \A c \in DOMAIN app : HandleSubmit(c) =>
             \A e \in store' \ store :
                 IF app[c].editingDish # noDish
                 THEN /\ e.id = app[c].editingDish.id
                      /\ e.createdAt = app[c].editingDish.createdAt
                      /\ DOMAIN e = DOMAIN app[c].editingDish
                      /\ store' \ {e} \subseteq store
                 ELSE /\ \A d \in store : d.id # e.id
                      /\ \A i \in DOMAIN app[c].dishes : app[c].dishes[i].id # e.id
                      /\ e.createdAt = clock
                      /\ store' = store \cup {e}]_vars

\* the stored dish renamed by an edit made after another dish was created:
\* it has the id and the createdAt it had
C20_Witness ==
    /\ clock = 3
    /\ \E d \in store :
          /\ d.id = "1"
          /\ d.createdAt = 0
          /\ d.name = <<"A">>
          /\ d.ingredients["Butchery"] = << <<"b">> >>
    /\ \E d \in store : d.id = "2" /\ d.createdAt = 1

----------------------------------------------------------------------------
(* consolidateIngredients and the order of its input *)

\* a sequence with the elements at i and i + 1 exchanged
SwapAt(s, i) ==
    [j \in DOMAIN s |-> IF j = i THEN s[i + 1] ELSE IF j = i + 1 THEN s[i] ELSE s[j]]

\* the dishes with two neighbouring ingredient strings of category c of
\* dish d exchanged
SwapStringsAt(ds, d, c, i) ==
    [ds EXCEPT ![d].ingredients[c] = SwapAt(ds[d].ingredients[c], i)]

\* the count of key k in category c of a result, 0 when it has no entry
CountIn(res, c, k) ==
    IF \E i \in DOMAIN res[c] : res[c][i].name = k
    THEN res[c][CHOOSE i \in DOMAIN res[c] : res[c][i].name = k].count
    ELSE 0

\* C26: the result does not depend on the order of the input: exchanging two
\* neighbouring dishes, or two neighbouring strings of one category of one
\* dish (the exchanges every permutation is made of), gives the same result,
\* entries in the same order included; and the count of a key for dishes
\* split in two is the sum of its counts for the two parts.  Two canonically
\* equivalent spellings come out in the order they went in (C9), so the
\* formula is violated under SpecSort.
C26_OrderIndependent ==
    Returned("consolidateIngredients") =>
        /\ \A i \in 1..(Len(dishes) - 1) :
              consolidateIngredients(SwapAt(dishes, i)) = ret
        /\ \A d \in DOMAIN dishes : \A c \in CategoryName :
              \A i \in 1..(Len(dishes[d].ingredients[c]) - 1) :
                  consolidateIngredients(SwapStringsAt(dishes, d, c, i)) = ret
        /\ \A n \in 0..Len(dishes) : \A c \in CategoryName :
              \A k \in KeysOf(dishes, c) :
                  CountIn(ret, c, k) =
                      CountIn(consolidateIngredients(SubSeq(dishes, 1, n)), c, k)
                      + CountIn(consolidateIngredients(SubSeq(dishes, n + 1, Len(dishes))), c, k)

\* ---------------------------------------------------------------------
\* useIngredientSuggestions: getSuggestions
\* ---------------------------------------------------------------------

MaxLimit == 2

\* the default of the parameter limit
DefaultLimit == 10

\* useState<KnownIngredients>: three empty lists
emptyKnownIngredients == [c \in CategoryName |-> <<>>]

\* String.prototype.startsWith
startsWith(s, p) ==
    /\ Len(p) <= Len(s)
    /\ SubSeq(s, 1, Len(p)) = p

\* Array.prototype.filter with the predicate of getSuggestions
RECURSIVE filterStartsWith(_, _)
filterStartsWith(list, trimmedQuery) ==
    IF list = <<>> THEN <<>>
    ELSE IF startsWith(toLowerCase(Head(list)), trimmedQuery)
         THEN <<Head(list)>> \o filterStartsWith(Tail(list), trimmedQuery)
         ELSE filterStartsWith(Tail(list), trimmedQuery)

\* the same filter comparing the ingredient as it is stored
RECURSIVE filterStartsWithExact(_, _)
filterStartsWithExact(list, trimmedQuery) ==
    IF list = <<>> THEN <<>>
    ELSE IF startsWith(Head(list), trimmedQuery)
         THEN <<Head(list)>> \o filterStartsWithExact(Tail(list), trimmedQuery)
         ELSE filterStartsWithExact(Tail(list), trimmedQuery)

\* Array.prototype.slice(0, end)
slice0(list, end) ==
    LET n == Len(list)
        k == IF end < 0 THEN (IF n + end < 0 THEN 0 ELSE n + end)
             ELSE (IF end > n THEN n ELSE end)
    IN  SubSeq(list, 1, k)

\* the optional argument limit is a sequence of no or one number
\* getSuggestions that compares the stored ingredient case-sensitively
getSuggestionsExact(knownIngredients, category, query, limit) ==
    LET lim == IF limit = <<>> THEN DefaultLimit ELSE limit[1]
        trimmedQuery == toLowerCase(trim(query))
    IN  IF trimmedQuery = <<>> THEN <<>>
        ELSE slice0(filterStartsWithExact(knownIngredients[category],
                                          trimmedQuery), lim)

getSuggestions(knownIngredients, category, query, limit) ==
    LET lim == IF limit = <<>> THEN DefaultLimit ELSE limit[1]
        trimmedQuery == toLowerCase(trim(query))
    IN  IF trimmedQuery = <<>> THEN <<>>
        ELSE slice0(filterStartsWith(knownIngredients[category],
                                     trimmedQuery), lim)

\* known ingredients of one category: none, a few, more than DefaultLimit
KnownFew == << <<"A", "b">>, <<"b">>, <<"a">>, <<"a", "B">>, <<" ", "a">> >>

KnownMany ==
    [i \in 1..(DefaultLimit + 6) |->
        IF i % 3 = 0 THEN <<"b">>
        ELSE IF i % 3 = 1 THEN <<"a", "b">> ELSE <<"A">>] \o
    [i \in 1..(DefaultLimit + 1) |-> <<"B", "a">>]

KnownLists == {<<>>, KnownFew, KnownMany}

Queries ==
    { <<>>, <<" ">>, <<"a">>, <<" ", "A">>, <<"a", "b">>, <<"B", " ">>,
      <<"b", "a">>, <<" ", " ">>, <<"a", " ", "b">> }

\* the null of useState<string | null>
noError == "null"

\* the hook after its fetch has succeeded with the lists known
hookIdle(known) ==
    [knownIngredients |-> known, loading |-> FALSE, error |-> noError,
     results |-> known, getDoc |-> [c \in CategoryName |-> "fulfilled"],
     fetchIngredients |-> "done", calls |-> <<>>]

InitSuggestions ==
    /\ name = <<>> /\ existingDishes = <<>> /\ editingId = undefined
    /\ ingredients = EmptyIngredients /\ dishes = <<>>
    /\ consolidatedList = [c \in {"Fruit shop","Butchery","Supermarket"} |-> <<>>]
    /\ store = {} /\ app = <<>> /\ clock = 0
    /\ ingredientDocs = <<>>
    /\ \E known \in [CategoryName -> KnownLists] :
          suggestions = hookIdle(known)
    /\ \E category \in CategoryName, query \in Queries,
          limit \in {<<>>} \cup {<<n>> : n \in 0..MaxLimit} :
          args = [category |-> category, query |-> query, limit |-> limit]
    /\ pc = "call"
    /\ ret = undefined

GetSuggestionsCall ==
    /\ pc = "call"
    /\ ret' = getSuggestions(suggestions.knownIngredients, args.category,
                             args.query, args.limit)
    /\ pc' = "done"
    /\ UNCHANGED <<name, existingDishes, editingId, ingredients, dishes,
                   consolidatedList, appVars>>

NextSuggestions == GetSuggestionsCall

SpecSuggestions == InitSuggestions /\ [][NextSuggestions]_vars

\* a character and its lowercase form, as the claim words it
LowerOf(ch) == IF ch = "A" THEN "a" ELSE IF ch = "B" THEN "b" ELSE ch

\* the query without surrounding whitespace, lowercased
QueryKey(q) ==
    LET first == IF \E i \in DOMAIN q : q[i] \notin Whitespace
                 THEN CHOOSE i \in DOMAIN q :
                        /\ q[i] \notin Whitespace
                        /\ \A j \in 1..(i - 1) : q[j] \in Whitespace
                 ELSE 1
        last  == IF \E i \in DOMAIN q : q[i] \notin Whitespace
                 THEN CHOOSE i \in DOMAIN q :
                        /\ q[i] \notin Whitespace
                        /\ \A j \in (i + 1)..Len(q) : q[j] \in Whitespace
                 ELSE 0
    IN  [i \in 1..(last - first + 1) |-> LowerOf(q[first + i - 1])]

Matches(ing, key) ==
    /\ Len(key) <= Len(ing)
    /\ \A i \in DOMAIN key : LowerOf(ing[i]) = key[i]

MatchingIndexes(list, key) == {i \in DOMAIN list : Matches(list[i], key)}

NthOf(S, j) == CHOOSE i \in S : Cardinality({m \in S : m < i}) = j - 1

\* C21: getSuggestions returns, in stored order, the first at most limit
\* (10 when no limit is given) known ingredients of the category whose
\* lowercased form starts with the trimmed, lowercased query; the empty
\* list when the query is empty or only whitespace; never an ingredient
\* of another category.
C21_Suggestions ==
    pc = "done" =>
        LET list == suggestions.knownIngredients[args.category]
            key  == QueryKey(args.query)
            lim  == IF args.limit = <<>> THEN 10 ELSE args.limit[1]
            M    == MatchingIndexes(list, key)
            n    == IF Cardinality(M) < lim THEN Cardinality(M) ELSE lim
        IN  IF \A i \in DOMAIN args.query : args.query[i] \in Whitespace
            THEN ret = <<>>
            ELSE ret = [j \in 1..n |-> list[NthOf(M, j)]]

C21_Witness ==
    /\ pc = "done"
    /\ args.limit = <<>>
    /\ args.query = <<" ", "A">>
    /\ Len(ret) = 10
    /\ Len(filterStartsWith(suggestions.knownIngredients[args.category],
                            <<"a">>)) > 10
    /\ \E i \in DOMAIN ret : ret[i] = <<"A">>

\* ---------------------------------------------------------------------
\* useIngredientSuggestions: the fetch on mount and addNewIngredients
\* ---------------------------------------------------------------------

MaxCalls == 2

FailedToLoad == "Failed to load ingredient suggestions"

\* Array.prototype.map(i => i.toLowerCase()) into a Set
existingLowerOf(list) == {toLowerCase(list[i]) : i \in DOMAIN list}

\* the filter of addNewIngredients without the test of ing.trim()
RECURSIVE filterNewKeepingBlank(_, _)
filterNewKeepingBlank(input, existingLower) ==
    IF input = <<>> THEN <<>>
    ELSE IF toLowerCase(Head(input)) \notin existingLower
         THEN <<Head(input)>> \o filterNewKeepingBlank(Tail(input), existingLower)
         ELSE filterNewKeepingBlank(Tail(input), existingLower)

\* ingredients.filter(ing => ing.trim() !== '' && !existingLower.has(ing.toLowerCase()))
RECURSIVE filterNew(_, _)
filterNew(input, existingLower) ==
    IF input = <<>> THEN <<>>
    ELSE IF trim(Head(input)) # <<>> /\ toLowerCase(Head(input)) \notin existingLower
         THEN <<Head(input)>> \o filterNew(Tail(input), existingLower)
         ELSE filterNew(Tail(input), existingLower)

\* arrayUnion: each element the array does not hold yet goes to its end
RECURSIVE arrayUnion(_, _)
arrayUnion(names, elements) ==
    IF elements = <<>> THEN names
    ELSE arrayUnion(IF \E i \in DOMAIN names : names[i] = Head(elements)
                    THEN names ELSE Append(names, Head(elements)),
                    Tail(elements))

\* a document of the collection is <<>> when it does not exist and
\* <<names>> when it does; setDoc(docRef, {names: arrayUnion(..)}, {merge: true})
setDocMerge(docs, category, elements) ==
    [docs EXCEPT ![category] =
        << arrayUnion(IF docs[category] = <<>> THEN <<>> ELSE docs[category][1],
                      elements) >>]

\* setKnownIngredients(prev => ...) that puts the new ingredients first
withNewIngredientsFirst(prev, category, newIngredients) ==
    [prev EXCEPT ![category] = newIngredients \o prev[category]]

\* setKnownIngredients(prev => ({...prev, [category]: [...prev[category], ...newIngredients]}))
withNewIngredients(prev, category, newIngredients) ==
    [prev EXCEPT ![category] = prev[category] \o newIngredients]

\* the collection 'ingredients' when the hook mounts
InitialIngredientDocs ==
    { [c \in CategoryName |-> <<>>],
      [c \in CategoryName |-> IF c = "Fruit shop" THEN << << <<"a">> >> >> ELSE <<>>],
      [c \in CategoryName |-> IF c = "Fruit shop" THEN << << <<"B">>, <<"a">> >> >>
                              ELSE IF c = "Butchery" THEN << <<>> >> ELSE <<>>] }

\* the lists a dish hands to addNewIngredients
AddedLists ==
    { <<>>, << <<"A">>, <<"b">> >>, << <<"a">>, <<" ">>, <<"A">> >> }

AddedCategory == {"Fruit shop", "Butchery"}

HookFrame ==
    UNCHANGED <<name, existingDishes, editingId, ingredients, dishes,
                consolidatedList, store, app, clock, args, pc, ret>>

\* the hook has mounted and fetchIngredients waits for its three getDoc
InitHook ==
    /\ name = <<>> /\ existingDishes = <<>> /\ editingId = undefined
    /\ ingredients = EmptyIngredients /\ dishes = <<>>
    /\ consolidatedList = [c \in {"Fruit shop","Butchery","Supermarket"} |-> <<>>]
    /\ store = {} /\ app = <<>> /\ clock = 0
    /\ args = <<>> /\ pc = "idle" /\ ret = undefined
    /\ ingredientDocs \in InitialIngredientDocs
    /\ suggestions =
          [knownIngredients |-> emptyKnownIngredients, loading |-> TRUE,
           error |-> noError, results |-> emptyKnownIngredients,
           getDoc |-> [c \in CategoryName |-> "pending"],
           fetchIngredients |-> "await", calls |-> <<>>]

\* await getDoc(docRef) is fulfilled; the callback fills results
GetDocFulfilled(category) ==
    /\ suggestions.getDoc[category] = "pending"
    /\ suggestions' =
          [suggestions EXCEPT
             !.getDoc[category] = "fulfilled",
             !.results[category] =
                 IF ingredientDocs[category] # <<>>
                 THEN ingredientDocs[category][1] ELSE @]
    /\ UNCHANGED ingredientDocs
    /\ HookFrame

GetDocRejected(category) ==
    /\ suggestions.getDoc[category] = "pending"
    /\ suggestions' = [suggestions EXCEPT !.getDoc[category] = "rejected"]
    /\ UNCHANGED ingredientDocs
    /\ HookFrame

\* Promise.all is fulfilled: setKnownIngredients(results), finally setLoading(false)
FetchIngredientsResolved ==
    /\ suggestions.fetchIngredients = "await"
    /\ \A c \in CategoryName : suggestions.getDoc[c] = "fulfilled"
    /\ suggestions' =
          [suggestions EXCEPT
             !.knownIngredients = suggestions.results,
             !.loading = FALSE,
             !.fetchIngredients = "done"]
    /\ UNCHANGED ingredientDocs
    /\ HookFrame

\* the rejection handled without the finally block
FetchIngredientsRejectedNoFinally ==
    /\ suggestions.fetchIngredients = "await"
    /\ \E c \in CategoryName : suggestions.getDoc[c] = "rejected"
    /\ suggestions' =
          [suggestions EXCEPT
             !.error = FailedToLoad,
             !.fetchIngredients = "done"]
    /\ UNCHANGED ingredientDocs
    /\ HookFrame

\* Promise.all is rejected: catch setError(..), finally setLoading(false)
FetchIngredientsRejected ==
    /\ suggestions.fetchIngredients = "await"
    /\ \E c \in CategoryName : suggestions.getDoc[c] = "rejected"
    /\ suggestions' =
          [suggestions EXCEPT
             !.error = FailedToLoad,
             !.loading = FALSE,
             !.fetchIngredients = "done"]
    /\ UNCHANGED ingredientDocs
    /\ HookFrame

\* addNewIngredients up to its await: the two early returns, or setDoc issued
addNewIngredientsStarted(knownIngredients, category, input) ==
    LET newIngredients ==
            filterNew(input, existingLowerOf(knownIngredients[category]))
    IN  [category |-> category, input |-> input,
         known |-> knownIngredients[category],
         newIngredients |-> newIngredients,
         state |-> IF input = <<>> \/ newIngredients = <<>>
                   THEN "returned" ELSE "pending"]

AddNewIngredientsCall(category, input) ==
    /\ Len(suggestions.calls) < MaxCalls
    /\ suggestions' =
          [suggestions EXCEPT
             !.calls = Append(@, addNewIngredientsStarted(
                                    suggestions.knownIngredients, category, input))]
    /\ UNCHANGED ingredientDocs
    /\ HookFrame

\* await setDoc(..) is fulfilled: the document is merged, the local state updated
SetDocFulfilled(i) ==
    /\ i \in DOMAIN suggestions.calls
    /\ suggestions.calls[i].state = "pending"
    /\ ingredientDocs' = setDocMerge(ingredientDocs, suggestions.calls[i].category,
                                     suggestions.calls[i].newIngredients)
    /\ suggestions' =
          [suggestions EXCEPT
             !.knownIngredients =
                 withNewIngredients(@, suggestions.calls[i].category,
                                    suggestions.calls[i].newIngredients),
             !.calls[i].state = "fulfilled"]
    /\ HookFrame

\* await setDoc(..) is rejected: console.error and throw err
SetDocRejected(i) ==
    /\ i \in DOMAIN suggestions.calls
    /\ suggestions.calls[i].state = "pending"
    /\ suggestions' = [suggestions EXCEPT !.calls[i].state = "rejected"]
    /\ UNCHANGED ingredientDocs
    /\ HookFrame

NextHook ==
    \/ \E c \in CategoryName : GetDocFulfilled(c)
    \/ \E c \in CategoryName : GetDocRejected(c)
    \/ FetchIngredientsResolved
    \/ FetchIngredientsRejected
    \/ \E c \in AddedCategory, input \in AddedLists : AddNewIngredientsCall(c, input)
    \/ \E i \in 1..MaxCalls : SetDocFulfilled(i)
    \/ \E i \in 1..MaxCalls : SetDocRejected(i)

SpecHook == InitHook /\ [][NextHook]_vars

\* the continuation of a settled promise always runs
SpecHookFair ==
    /\ SpecHook
    /\ WF_vars(FetchIngredientsResolved)
    /\ WF_vars(FetchIngredientsRejected)

\* the input strings that addNewIngredients is to write, as the claim
\* words it: non-blank and not known already, whatever the case
WantedOf(input, known) ==
    { input[k] : k \in { j \in DOMAIN input :
          /\ \E n \in DOMAIN input[j] : input[j][n] \notin Whitespace
          /\ \A m \in DOMAIN known :
                [n \in DOMAIN known[m] |-> LowerOf(known[m][n])] #
                [n \in DOMAIN input[j] |-> LowerOf(input[j][n])] } }

WrittenBy(call) == {call.newIngredients[k] : k \in DOMAIN call.newIngredients}

\* C22: addNewIngredients writes exactly the input strings that are not
\* blank and whose lowercased form is not the lowercased form of a known
\* ingredient of the category; with an empty input, or with no such
\* string, it returns without a write to the store.
C22_WritesOnlyNewIngredients ==
    /\ [](\A i \in DOMAIN suggestions.calls :
            LET call == suggestions.calls[i]
            IN  /\ WrittenBy(call) = WantedOf(call.input, call.known)
                /\ (call.state = "returned") <=>
                      (WantedOf(call.input, call.known) = {}))
    /\ [][ingredientDocs' # ingredientDocs =>
            \E i \in DOMAIN suggestions.calls :
               /\ suggestions.calls[i].state = "pending"
               /\ suggestions'.calls[i].state = "fulfilled"
               /\ WrittenBy(suggestions.calls[i]) # {}
               /\ \A c \in CategoryName :
                    c # suggestions.calls[i].category =>
                       ingredientDocs'[c] = ingredientDocs[c]
               /\ LET names == ingredientDocs'[suggestions.calls[i].category][1]
                      old   == IF ingredientDocs[suggestions.calls[i].category] = <<>>
                               THEN <<>>
                               ELSE ingredientDocs[suggestions.calls[i].category][1]
                  IN  {names[k] : k \in DOMAIN names} =
                        {old[k] : k \in DOMAIN old} \cup
                        WantedOf(suggestions.calls[i].input,
                                 suggestions.calls[i].known)]_vars

C22_Witness ==
    \E i \in DOMAIN suggestions.calls :
        /\ suggestions.calls[i].state = "fulfilled"
        /\ suggestions.calls[i].input = << <<"A">>, <<"b">> >>
        /\ suggestions.calls[i].known = << <<"a">> >>
        /\ suggestions.calls[i].newIngredients = << <<"b">> >>
        /\ ingredientDocs[suggestions.calls[i].category] = << << <<"a">>, <<"b">> >> >>

\* C24: when the write of addNewIngredients succeeds, knownIngredients of
\* the category becomes the previous list followed by the ingredients
\* written and the other two lists stay as they were; when the write
\* fails, knownIngredients stays as it was and the call rejects.
C24_LocalStateAfterAdd ==
    [][\A i \in DOMAIN suggestions.calls :
          suggestions.calls[i].state = "pending" =>
             LET call == suggestions.calls[i]
                 prev == suggestions.knownIngredients
                 next == suggestions'.knownIngredients
             IN  /\ suggestions'.calls[i].state \in {"pending", "fulfilled", "rejected"}
                 /\ suggestions'.calls[i].state = "fulfilled" =>
                       /\ next[call.category] =
                             prev[call.category] \o call.newIngredients
                       /\ \A c \in CategoryName \ {call.category} :
                             next[c] = prev[c]
                       /\ \A k \in DOMAIN call.newIngredients :
                             \E n \in DOMAIN ingredientDocs'[call.category][1] :
                                ingredientDocs'[call.category][1][n] =
                                   call.newIngredients[k]
                 /\ suggestions'.calls[i].state = "rejected" =>
                       /\ next = prev
                       /\ ingredientDocs' = ingredientDocs]_vars

C24_Witness ==
    /\ Len(suggestions.calls) = 2
    /\ suggestions.calls[1].state = "rejected"
    /\ suggestions.calls[2].state = "fulfilled"
    /\ suggestions.calls[2].category = "Fruit shop"
    /\ suggestions.calls[2].newIngredients = << <<"A">>, <<"b">> >>
    /\ suggestions.knownIngredients =
          [c \in CategoryName |->
              IF c = "Fruit shop" THEN << <<"B">>, <<"a">>, <<"A">>, <<"b">> >>
              ELSE <<>>]

\* C30: no two entries of knownIngredients[category] have the same
\* lowercased form, after any sequence or interleaving of
\* addNewIngredients calls.
C30_NoCaseInsensitiveDuplicates ==
    \A c \in CategoryName :
        \A i, j \in DOMAIN suggestions.knownIngredients[c] :
            i # j =>
               toLowerCase(suggestions.knownIngredients[c][i]) #
               toLowerCase(suggestions.knownIngredients[c][j])

Settled == \A c \in CategoryName : suggestions.getDoc[c] # "pending"

NoCallFulfilled ==
    \A i \in DOMAIN suggestions.calls : suggestions.calls[i].state # "fulfilled"

\* C23: loading is true from the mount until fetchIngredients ends; once
\* the three getDoc have settled it becomes false, and it stays false;
\* when a getDoc failed, error is the message and the fetch leaves
\* knownIngredients as it was (three empty lists unless an ingredient
\* was added meanwhile); when all succeeded, error is null and each
\* category gets the names its getDoc read, the empty list when the
\* document did not exist.
C23_LoadingLifecycle ==
    /\ [](suggestions.fetchIngredients = "await" => suggestions.loading)
    /\ (Settled ~> ~suggestions.loading)
    /\ [][~suggestions.loading => ~suggestions'.loading]_vars
    /\ [][(suggestions.fetchIngredients = "await"
             /\ suggestions'.fetchIngredients = "done") =>
            IF \E c \in CategoryName : suggestions.getDoc[c] = "rejected"
            THEN /\ suggestions'.error = "Failed to load ingredient suggestions"
                 /\ suggestions'.knownIngredients = suggestions.knownIngredients
                 /\ NoCallFulfilled =>
                      suggestions'.knownIngredients = [c \in CategoryName |-> <<>>]
            ELSE /\ suggestions'.error = "null"
                 /\ suggestions'.knownIngredients = suggestions.results]_vars
    /\ [][\A c \in CategoryName :
            (suggestions.getDoc[c] = "pending"
               /\ suggestions'.getDoc[c] = "fulfilled") =>
                  suggestions'.results[c] =
                     IF ingredientDocs[c] = <<>> THEN <<>>
                     ELSE ingredientDocs[c][1]]_vars
    /\ [](suggestions.fetchIngredients = "done" =>
            /\ ~suggestions.loading
            /\ suggestions.error \in {"null", "Failed to load ingredient suggestions"})

C23_Witness ==
    /\ suggestions.fetchIngredients = "done"
    /\ ~suggestions.loading
    /\ suggestions.error = "Failed to load ingredient suggestions"
    /\ suggestions.knownIngredients = [c \in CategoryName |-> <<>>]
    /\ suggestions.getDoc["Fruit shop"] = "fulfilled"
    /\ suggestions.getDoc["Butchery"] = "rejected"
    /\ ingredientDocs["Fruit shop"] # <<>>

C23_SuccessWitness ==
    /\ suggestions.fetchIngredients = "done"
    /\ suggestions.error = "null"
    /\ suggestions.knownIngredients["Fruit shop"] = << <<"B">>, <<"a">> >>
    /\ suggestions.knownIngredients["Supermarket"] = <<>>
    /\ ingredientDocs["Supermarket"] = <<>>

\* ---------------------------------------------------------------------
\* App: handleSaveDish and saveNewIngredients
\* ---------------------------------------------------------------------

\* the data the form hands to onSave
SavedDishData ==
    { [name |-> <<"a">>,
       ingredients |-> [EmptyIngredients EXCEPT !["Fruit shop"] = << <<"a">> >>]],
      [name |-> <<"b">>,
       ingredients |-> [EmptyIngredients EXCEPT
                           !["Fruit shop"] = << <<"A">>, <<"b">> >>,
                           !["Butchery"] = << <<"b">> >>]],
      [name |-> <<"b">>,
       ingredients |-> [c \in CategoryName |-> << <<"a">> >>]] }

\* the known ingredients once the fetch of the hook has succeeded
LoadedIngredients ==
    { emptyKnownIngredients,
      [emptyKnownIngredients EXCEPT !["Fruit shop"] = << <<"a">> >>] }

docsOf(known) ==
    [c \in CategoryName |-> IF known[c] = <<>> THEN <<>> ELSE << known[c] >>]

\* the application on the create tab, with or without a dish being
\* edited, and handleSaveDish not called yet
InitSave ==
    /\ name = <<>> /\ existingDishes = <<>> /\ editingId = undefined
    /\ ingredients = EmptyIngredients /\ dishes = <<>>
    /\ consolidatedList = [c \in {"Fruit shop","Butchery","Supermarket"} |-> <<>>]
    /\ store \in InitialDocs
    /\ clock = 1
    /\ \E editingDish \in {noDish} \cup store :
          app = [c \in {1} |->
                    [startedClient(store) EXCEPT !.editingDish = editingDish]]
    /\ \E known \in LoadedIngredients :
          /\ suggestions = hookIdle(known)
          /\ ingredientDocs = docsOf(known)
    /\ args = <<>>
    /\ pc = "idle"
    /\ ret = undefined

SaveFrame ==
    UNCHANGED <<name, existingDishes, editingId, ingredients, dishes,
                consolidatedList>>

\* handleSaveDish up to its first await: updateDish or addDish has called
\* setDoc, which writes the dish
HandleSaveDishCall(dishData) ==
    /\ pc = "idle"
    /\ LET dish == dishToSave(app[1].editingDish, dishData,
                              ToString(clock + 1), clock)
       IN  /\ store' = setDoc(store, dish)
           /\ args' = [dishData |-> dishData, dish |-> dish,
                       editingDish |-> app[1].editingDish,
                       addNewIngredients |-> suggestions.knownIngredients,
                       before |-> store]
    /\ clock' = clock + 1
    /\ pc' = "await dish"
    /\ UNCHANGED <<app, suggestions, ingredientDocs, ret>>
    /\ SaveFrame

\* setDoc of the dish is rejected: updateDish or addDish rethrows and
\* handleSaveDish rejects; the write is not in the collection
DishWriteRejected ==
    /\ pc = "await dish"
    /\ store' = args.before
    /\ pc' = "rejected"
    /\ UNCHANGED <<app, clock, args, suggestions, ingredientDocs, ret>>
    /\ SaveFrame

\* the calls CATEGORIES.map makes, each up to its own await
RECURSIVE callsFor(_, _, _)
callsFor(knownIngredients, ingredientsByCategory, k) ==
    IF k = 0 THEN <<>>
    ELSE Append(callsFor(knownIngredients, ingredientsByCategory, k - 1),
                addNewIngredientsStarted(knownIngredients, CATEGORIES[k],
                                         ingredientsByCategory[CATEGORIES[k]]))

\* setDoc of the dish is fulfilled: setEditingDish(null) for an edit, then
\* saveNewIngredients calls addNewIngredients for every category
DishWriteFulfilled ==
    /\ pc = "await dish"
    /\ app' = [app EXCEPT ![1].editingDish =
                  IF args.editingDish # noDish THEN noDish ELSE @]
    /\ suggestions' =
          [suggestions EXCEPT
             !.calls = callsFor(args.addNewIngredients,
                                args.dishData.ingredients, Len(CATEGORIES))]
    /\ pc' = "await ingredients"
    /\ UNCHANGED <<store, clock, args, ingredientDocs, ret>>
    /\ SaveFrame

\* saveNewIngredients without its try and catch
SaveNewIngredientsSettledUncaught ==
    /\ pc = "await ingredients"
    /\ \/ /\ \E i \in DOMAIN suggestions.calls :
                suggestions.calls[i].state = "rejected"
          /\ pc' = "rejected"
          /\ ret' = undefined
       \/ /\ \A i \in DOMAIN suggestions.calls :
                suggestions.calls[i].state \in {"returned", "fulfilled"}
          /\ pc' = "fulfilled"
          /\ ret' = undefined
    /\ UNCHANGED <<store, app, clock, args, suggestions, ingredientDocs>>
    /\ SaveFrame

\* Promise.all settles: a rejection is caught and logged with
\* console.error; handleSaveDish is fulfilled either way
SaveNewIngredientsSettled ==
    /\ pc = "await ingredients"
    /\ \/ /\ \E i \in DOMAIN suggestions.calls :
                suggestions.calls[i].state = "rejected"
          /\ ret' = "Failed to save new ingredients:"
       \/ /\ \A i \in DOMAIN suggestions.calls :
                suggestions.calls[i].state \in {"returned", "fulfilled"}
          /\ ret' = undefined
    /\ pc' = "fulfilled"
    /\ UNCHANGED <<store, app, clock, args, suggestions, ingredientDocs>>
    /\ SaveFrame

\* the writes of addNewIngredients settle while handleSaveDish waits or
\* after Promise.all has rejected
IngredientWriteSettled(i) ==
    /\ pc \in {"await ingredients", "fulfilled"}
    /\ \/ SetDocFulfilled(i)
       \/ SetDocRejected(i)

NextSave ==
    \/ \E dishData \in SavedDishData : HandleSaveDishCall(dishData)
    \/ DishWriteRejected
    \/ DishWriteFulfilled
    \/ \E i \in DOMAIN CATEGORIES : IngredientWriteSettled(i)
    \/ SaveNewIngredientsSettled

SpecSave == InitSave /\ [][NextSave]_vars

\* C25: the dish is in the collection, and the edit closed, when
\* addNewIngredients is first called; a rejection of addNewIngredients is
\* caught and logged, handleSaveDish is fulfilled all the same, and the
\* dish stays in the collection.
C25_SuggestionsNonCritical ==
    /\ [][(suggestions.calls = <<>> /\ suggestions'.calls # <<>>) =>
            /\ args.dish \in store
            /\ app'[1].editingDish = noDish
            /\ Len(suggestions'.calls) = 3]_vars
    /\ [](suggestions.calls # <<>> => args.dish \in store)
    /\ [][pc = "await ingredients" =>
            pc' \in {"await ingredients", "fulfilled"}]_vars
    /\ [](pc = "rejected" => suggestions.calls = <<>>)
    /\ []((pc = "fulfilled"
            /\ \E i \in DOMAIN suggestions.calls :
                  suggestions.calls[i].state = "rejected") =>
          /\ ret = "Failed to save new ingredients:"
          /\ args.dish \in store)

C25_Witness ==
    /\ pc = "fulfilled"
    /\ args.editingDish # noDish
    /\ app[1].editingDish = noDish
    /\ suggestions.calls[1].state = "rejected"
    /\ suggestions.calls[2].state = "fulfilled"
    /\ suggestions.calls[3].state = "returned"
    /\ ret = "Failed to save new ingredients:"
    /\ args.dish \in store

\* ---------------------------------------------------------------------
\* BrowseDishes: the selection
\* ---------------------------------------------------------------------

MAX_SELECTED_DISHES == 10

\* the order in which a snapshot lists the documents
BrowseOrder == [i \in 1..(MAX_SELECTED_DISHES + 2) |-> ToString(i)]

\* the dish of the collection with the id given, named by its id
browseDish(id) ==
    StoredDish(id, <<id>>,
               [EmptyIngredients EXCEPT !["Fruit shop"] = << <<"a">> >>], 0)

\* snapshot.forEach(doc => dishList.push(doc.data()))
dishListOf(docs) ==
    LET ids == SelectSeq(BrowseOrder, LAMBDA i : \E d \in docs : d.id = i)
    IN  [k \in DOMAIN ids |-> CHOOSE d \in docs : d.id = ids[k]]

\* the dishes whose delete button is pressed, and the dishes another
\* browser deletes and adds
DeleteRequested == {"11"}

DeletedElsewhere == {"2"}

AddedElsewhere == {"3"}

\* BrowseDishes just mounted on the snapshot of docs
browseMounted(docs) ==
    [dishes |-> dishListOf(docs), selectedIds |-> {}, dishToDelete |-> noDish]

InitBrowseOn(ids) ==
    /\ name = <<>> /\ existingDishes = <<>> /\ editingId = undefined
    /\ ingredients = EmptyIngredients /\ dishes = <<>>
    /\ consolidatedList = [c \in {"Fruit shop","Butchery","Supermarket"} |-> <<>>]
    /\ store = {browseDish(id) : id \in ids}
    /\ app = [c \in {1} |-> browseMounted(store)]
    /\ clock = 1
    /\ NoHook
    /\ pc = <<"mounted">>
    /\ ret = undefined

BrowseFrame ==
    UNCHANGED <<name, existingDishes, editingId, ingredients, dishes,
                consolidatedList, clock, hookVars, ret>>

\* handleToggleSelect with a limit one too high
toggledUpToOneMore(prev, id) ==
    IF id \in prev THEN prev \ {id}
    ELSE IF Cardinality(prev) > MAX_SELECTED_DISHES THEN prev
    ELSE prev \cup {id}

\* the updater of handleToggleSelect
toggled(prev, id) ==
    IF id \in prev THEN prev \ {id}
    ELSE IF Cardinality(prev) >= MAX_SELECTED_DISHES THEN prev
    ELSE prev \cup {id}

\* handleToggleSelect(id), from the card of a listed dish; pc keeps the
\* handler that ran and its argument
HandleToggleSelect(i) ==
    /\ i \in DOMAIN app[1].dishes
    /\ app' = [app EXCEPT ![1].selectedIds = toggled(@, app[1].dishes[i].id)]
    /\ pc' = <<"handleToggleSelect", app[1].dishes[i].id>>
    /\ UNCHANGED store
    /\ BrowseFrame

\* handleDeleteRequest(dish)
HandleDeleteRequest(i) ==
    /\ i \in DOMAIN app[1].dishes
    /\ app[1].dishes[i].id \in DeleteRequested
    /\ app' = [app EXCEPT ![1].dishToDelete = app[1].dishes[i]]
    /\ pc' = <<"handleDeleteRequest">>
    /\ UNCHANGED store
    /\ BrowseFrame

\* onCancel of the dialog
HandleCancelDelete ==
    /\ app[1].dishToDelete # noDish
    /\ app' = [app EXCEPT ![1].dishToDelete = noDish]
    /\ pc' = <<"onCancel">>
    /\ UNCHANGED store
    /\ BrowseFrame

\* handleConfirmDelete: onDelete(id) deletes the document, the id leaves
\* the selection, the dialog closes
HandleConfirmDelete ==
    /\ app[1].dishToDelete # noDish
    /\ store' = deleteDoc(store, app[1].dishToDelete.id)
    /\ app' = [app EXCEPT ![1].selectedIds = @ \ {app[1].dishToDelete.id},
                          ![1].dishToDelete = noDish]
    /\ pc' = <<"handleConfirmDelete">>
    /\ BrowseFrame

\* handleClearSelection, from the button shown while a dish is selected
HandleClearSelection ==
    /\ app[1].selectedIds # {}
    /\ app' = [app EXCEPT ![1].selectedIds = {}]
    /\ pc' = <<"handleClearSelection">>
    /\ UNCHANGED store
    /\ BrowseFrame

\* the onSnapshot callback: setDishes(dishList)
OnBrowseSnapshot ==
    /\ app[1].dishes # dishListOf(store)
    /\ app' = [app EXCEPT ![1].dishes = dishListOf(store)]
    /\ pc' = <<"onSnapshot">>
    /\ UNCHANGED store
    /\ BrowseFrame

\* deleteDish in another browser
DeleteDishElsewhere(id) ==
    /\ \E d \in store : d.id = id
    /\ store' = deleteDoc(store, id)
    /\ UNCHANGED <<app, pc>>
    /\ BrowseFrame

\* addDish in another browser
AddDishElsewhere(id) ==
    /\ \A d \in store : d.id # id
    /\ store' = setDoc(store, browseDish(id))
    /\ UNCHANGED <<app, pc>>
    /\ BrowseFrame

NextSelect ==
    \/ \E i \in 1..Len(BrowseOrder) : HandleToggleSelect(i)
    \/ \E i \in 1..Len(BrowseOrder) : HandleDeleteRequest(i)
    \/ HandleCancelDelete
    \/ HandleConfirmDelete
    \/ HandleClearSelection
    \/ OnBrowseSnapshot

\* BrowseDishes over one more dish than may be selected
InitSelect == InitBrowseOn({BrowseOrder[i] : i \in 1..(MAX_SELECTED_DISHES + 1)})

SpecSelect == InitSelect /\ [][NextSelect]_vars

NextBrowse ==
    \/ NextSelect
    \/ \E id \in DeletedElsewhere : DeleteDishElsewhere(id)
    \/ \E id \in AddedElsewhere : AddDishElsewhere(id)

\* BrowseDishes over three dishes, in a collection other browsers write
InitBrowse == InitBrowseOn({"1", "2", "11"})

SpecBrowse == InitBrowse /\ [][NextBrowse]_vars

\* C27: selectedIds never holds more than 10 ids; a toggle of an
\* unselected dish while 10 are selected leaves the selection as it was,
\* and a toggle of a selected dish removes it.
C27_SelectionBounded ==
    /\ [](Cardinality(app[1].selectedIds) <= 10)
    /\ [][Cardinality(app[1].selectedIds) = 10 =>
            app'[1].selectedIds \subseteq app[1].selectedIds]_vars
    /\ [][(pc'[1] = "handleToggleSelect" /\ pc'[2] \in app[1].selectedIds
             /\ app' # app) =>
            app'[1].selectedIds = app[1].selectedIds \ {pc'[2]}]_vars

C27_Witness ==
    /\ Cardinality(app[1].selectedIds) = 10
    /\ pc = <<"handleToggleSelect", "11">>
    /\ "11" \notin app[1].selectedIds
    /\ Len(app[1].dishes) = 11

\* C28: every id of selectedIds is the id of a dish of the dishes prop,
\* so selectedIds.size is the number of dishes consolidateIngredients
\* receives.
C28_SelectionWithinDishes ==
    /\ \A id \in app[1].selectedIds :
          \E i \in DOMAIN app[1].dishes : app[1].dishes[i].id = id
    /\ Cardinality(app[1].selectedIds) =
          Len(SelectSeq(app[1].dishes, LAMBDA d : d.id \in app[1].selectedIds))

\* C29: a dish is edited only on the create tab; the change to the
\* browse tab clears editingDish, and so does the end of the save of an
\* edit.
C29_EditingOnlyOnCreateTab ==
    /\ [](\A c \in DOMAIN app :
            app[c].editingDish # noDish => app[c].activeTab = "create")
    /\ [][\A c \in DOMAIN app :
            /\ (app[c].activeTab = "create" /\ app'[c].activeTab = "browse") =>
                  app'[c].editingDish = noDish
            /\ app'[c].pending < app[c].pending =>
                  app'[c].editingDish = noDish]_vars

C29_Witness ==
    /\ app[1].editingDish = noDish
    /\ app[1].activeTab = "create"
    /\ app[1].pending = 0
    /\ \E d \in store : d.id = "1" /\ d.name = <<"b">>

====
